---- MODULE Spec2Model ----
(***************************************************************************)
(* Task Dependency & Status Graph Engine of task-master                    *)
(* (scripts/modules/task-manager.js and the AI-service helpers).           *)
(*                                                                         *)
(* A JavaScript object is a TLA+ record whose DOMAIN is the set of fields  *)
(* the object has: an absent field is absent from the DOMAIN.  A string    *)
(* that the code parses (an id typed on the command line) is a sequence of *)
(* one-character strings, so that split, trim and parseInt are computed.   *)
(* Every command reads the persisted document, mutates the object it read  *)
(* and writes it back only on the paths where the code calls writeJSON.    *)
(***************************************************************************)
EXTENDS Integers, Sequences, FiniteSets, TLC

VARIABLES
    tasksFile,   \* data.tasks of the persisted document (tasks.json)
    before,      \* data.tasks as the last command read it (readJSON)
    data,        \* data.tasks in memory when the last command ended
    last,        \* the last command: its name, arguments and outcome
    taskFiles,   \* the task list generateTaskFiles last rendered
    steps        \* number of commands run so far

vars == <<tasksFile, before, data, last, taskFiles, steps>>

---------------------------------------------------------------------------
(* Bounds of the model *)

MaxOps == 2

---------------------------------------------------------------------------
(* JavaScript values *)

\* Math.max() of no arguments, and the value it keeps under "+ 1"
NegInfinity == -1000

Has(o, f) == f \in DOMAIN o

\* { ...o, ...p }
Spread(o, p) == [f \in (DOMAIN o) \cup (DOMAIN p) |-> IF f \in DOMAIN p THEN p[f] ELSE o[f]]

\* delete o.f
\* delete that leaves the field in place
KeepField(o, f) == o

Delete(o, f) == [g \in (DOMAIN o) \ {f} |-> o[g]]

\* o.f || dflt, for a string field
StrOr(o, f, dflt) == IF Has(o, f) /\ o[f] # "" THEN o[f] ELSE dflt

\* o.f || [], for an array field
ArrOr(o, f) == IF Has(o, f) THEN o[f] ELSE <<>>

Range(s) == {s[i] : i \in DOMAIN s}

Includes(s, x) == \E i \in DOMAIN s : s[i] = x

SetMax(S) == CHOOSE m \in S : \A x \in S : x <= m

\* the null that JSON.stringify writes for a number that is not finite
NullId == -2000

\* the number an operand of Math.max or of "-" is converted to
ToNumber(x) == IF x = NullId THEN 0 ELSE x

\* Math.max(...xs)
MathMax(xs) ==
    IF xs = <<>> THEN NegInfinity ELSE SetMax({ToNumber(xs[i]) : i \in DOMAIN xs})

\* x + 1 on a JavaScript number
PlusOne(x) == IF x = NegInfinity THEN NegInfinity ELSE x + 1

\* Array.prototype.findIndex; 0 stands for -1 (sequences are 1-based)
FindIndex(s, P(_)) ==
    IF \E i \in DOMAIN s : P(s[i])
    THEN CHOOSE i \in DOMAIN s : P(s[i]) /\ \A j \in 1..(i - 1) : ~P(s[j])
    ELSE 0

\* Array.prototype.filter
Filter(s, P(_)) == SelectSeq(s, P)

\* splice one position too far
RemoveAfter(s, i) == SubSeq(s, 1, i) \o SubSeq(s, i + 2, Len(s))

\* Array.prototype.splice(i, 1)
RemoveAt(s, i) == SubSeq(s, 1, i - 1) \o SubSeq(s, i + 1, Len(s))

\* s.map(o => o.id)
Ids(s) == [i \in DOMAIN s |-> s[i].id]

---------------------------------------------------------------------------
(* Strings typed by the caller: split, trim, parseInt *)

Digits == <<"0", "1", "2", "3", "4", "5", "6", "7", "8", "9">>

IsDigit(c) == Includes(Digits, c)

DigitVal(c) == (CHOOSE i \in DOMAIN Digits : Digits[i] = c) - 1

\* String.prototype.trim
RECURSIVE TrimLeft(_)
TrimLeft(s) == IF s # <<>> /\ Head(s) = " " THEN TrimLeft(Tail(s)) ELSE s

RECURSIVE TrimRight(_)
TrimRight(s) ==
    IF s # <<>> /\ s[Len(s)] = " " THEN TrimRight(SubSeq(s, 1, Len(s) - 1)) ELSE s

Trim(s) == TrimRight(TrimLeft(s))

\* String.prototype.split(sep): the pieces between the separators
RECURSIVE SplitAcc(_, _, _)
SplitAcc(s, sep, cur) ==
    IF s = <<>> THEN <<cur>>
    ELSE IF Head(s) = sep THEN <<cur>> \o SplitAcc(Tail(s), sep, <<>>)
    ELSE SplitAcc(Tail(s), sep, Append(cur, Head(s)))

Split(s, sep) == SplitAcc(s, sep, <<>>)

\* the value of the longest prefix of digits
RECURSIVE DigitsPrefix(_, _)
DigitsPrefix(s, acc) ==
    IF s # <<>> /\ IsDigit(Head(s))
    THEN DigitsPrefix(Tail(s), 10 * acc + DigitVal(Head(s)))
    ELSE acc

\* parseInt(s, 10): leading blanks skipped, an optional sign, then the digits
\* up to the first other character; NaN when there is no digit
ParseInt(s) ==
    LET t == TrimLeft(s)
        neg == t # <<>> /\ Head(t) = "-"
        u == IF t # <<>> /\ Head(t) \in {"-", "+"} THEN Tail(t) ELSE t
    IN  IF u = <<>> \/ ~IsDigit(Head(u))
        THEN [isNaN |-> TRUE, val |-> 0]
        ELSE [isNaN |-> FALSE,
              val |-> IF neg THEN 0 - DigitsPrefix(u, 0) ELSE DigitsPrefix(u, 0)]

\* id === n, for n a parseInt result (NaN equals nothing)
IdEq(id, n) == ~n.isNaN /\ id = n.val

\* String.prototype.toLowerCase on the status words the callers pass
ToLowerCase(s) ==
    CASE s = "DONE" -> "done"
      [] s = "Completed" -> "completed"
      [] OTHER -> s

---------------------------------------------------------------------------
(* Statuses *)

\* the comparison without the synonym
IsDoneOnly(o) == Has(o, "status") /\ o.status = "done"

\* st.status === 'done' || st.status === 'completed'
IsDone(o) == Has(o, "status") /\ o.status \in {"done", "completed"}

\* newStatus.toLowerCase() === 'done' || newStatus.toLowerCase() === 'completed'
MarksDone(newStatus) == ToLowerCase(newStatus) \in {"done", "completed"}

SetStatus(o, newStatus) == Spread(o, [status |-> newStatus])

---------------------------------------------------------------------------
(* updateSingleTaskStatus: one address of a set-status command.            *)
(* error = "" when it returned, else the message of the Error it threw;   *)
(* tasks is data.tasks as the call left it.                                 *)

\* a dotted address taken for the address of its parent task
UpdateParentOfSubtask(tasks, taskIdInput, newStatus) ==
    LET parentId == ParseInt(Split(taskIdInput, ".")[1])
        p == FindIndex(tasks, LAMBDA t : IdEq(t.id, parentId))
    IN  IF p = 0 THEN [tasks |-> tasks, error |-> "Parent task not found", advisory |-> FALSE]
        ELSE [tasks |-> [tasks EXCEPT ![p] = SetStatus(@, newStatus)], error |-> "",
              advisory |-> FALSE]

UpdateSubtaskStatus(tasks, taskIdInput, newStatus) ==
    LET parts == Split(taskIdInput, ".")
        parentId == ParseInt(parts[1])
        subtaskId == ParseInt(parts[2])
        p == FindIndex(tasks, LAMBDA t : IdEq(t.id, parentId))
    IN  IF p = 0 THEN [tasks |-> tasks, error |-> "Parent task not found", advisory |-> FALSE]
        ELSE IF ~Has(tasks[p], "subtasks")
        THEN [tasks |-> tasks, error |-> "Parent task has no subtasks", advisory |-> FALSE]
        ELSE LET s == FindIndex(tasks[p].subtasks, LAMBDA st : IdEq(st.id, subtaskId))
             IN  IF s = 0
                 THEN [tasks |-> tasks, error |-> "Subtask not found", advisory |-> FALSE]
                 ELSE LET subs == [tasks[p].subtasks EXCEPT ![s] = SetStatus(@, newStatus)]
                          parent == Spread(tasks[p], [subtasks |-> subs])
                      IN  [tasks |-> [tasks EXCEPT ![p] = parent],
                           error |-> "",
                           advisory |-> /\ MarksDone(newStatus)
                                        /\ \A i \in DOMAIN subs : IsDone(subs[i])
                                        /\ ~IsDone(parent)]

\* CascadeDone without the filter on the subtasks that are already done
CascadeDoneEverySubtask(subs, newStatus) ==
    [i \in DOMAIN subs |-> SetStatus(subs[i], newStatus)]

\* pendingSubtasks.forEach(subtask => { subtask.status = newStatus })
CascadeDone(subs, newStatus) ==
    [i \in DOMAIN subs |-> IF IsDone(subs[i]) THEN subs[i] ELSE SetStatus(subs[i], newStatus)]

UpdateTaskStatus(tasks, taskIdInput, newStatus) ==
    LET taskId == ParseInt(taskIdInput)
        p == FindIndex(tasks, LAMBDA t : IdEq(t.id, taskId))
    IN  IF p = 0 THEN [tasks |-> tasks, error |-> "Task not found", advisory |-> FALSE]
        ELSE LET t1 == SetStatus(tasks[p], newStatus)
                 t2 == IF MarksDone(newStatus) /\ Has(t1, "subtasks") /\ Len(t1.subtasks) > 0
                       THEN Spread(t1, [subtasks |-> CascadeDone(t1.subtasks, newStatus)])
                       ELSE t1
             IN  [tasks |-> [tasks EXCEPT ![p] = t2], error |-> "", advisory |-> FALSE]

UpdateSingleTaskStatus(tasks, taskIdInput, newStatus) ==
    IF Includes(taskIdInput, ".")
    THEN UpdateSubtaskStatus(tasks, taskIdInput, newStatus)
    ELSE UpdateTaskStatus(tasks, taskIdInput, newStatus)

\* the loop of setTaskStatus: the first throw leaves the loop, and the ids
\* after it are not visited
RECURSIVE UpdateEach(_, _, _, _, _)
UpdateEach(tasks, taskIds, newStatus, updatedTasks, advisories) ==
    IF taskIds = <<>>
    THEN [tasks |-> tasks, error |-> "", updatedTasks |-> updatedTasks,
          advisories |-> advisories]
    ELSE LET r == UpdateSingleTaskStatus(tasks, Head(taskIds), newStatus)
         IN  IF r.error # ""
             THEN [tasks |-> r.tasks, error |-> r.error, updatedTasks |-> updatedTasks,
                   advisories |-> advisories]
             ELSE UpdateEach(r.tasks, Tail(taskIds), newStatus,
                             Append(updatedTasks, Head(taskIds)),
                             IF r.advisory THEN Append(advisories, Head(taskIds))
                             ELSE advisories)

\* taskIdInput.split(',').map(id => id.trim())
TaskIdsOf(taskIdInput) ==
    LET parts == Split(taskIdInput, ",") IN [i \in DOMAIN parts |-> Trim(parts[i])]

---------------------------------------------------------------------------
(* findNextTask *)

\* priorityValues[a.priority || 'medium'] || 2
PriorityValue(o) ==
    LET pr == StrOr(o, "priority", "medium")
    IN  CASE pr = "high" -> 3
          [] pr = "medium" -> 2
          [] pr = "low" -> 1
          [] OTHER -> 2

\* a - b on ids: NaN (both -Infinity) orders like 0
IdMinus(a, b) ==
    IF a = NegInfinity /\ b = NegInfinity THEN 0
    ELSE IF a = NegInfinity THEN -1
    ELSE IF b = NegInfinity THEN 1
    ELSE ToNumber(a) - ToNumber(b)

\* the comparator handed to sort
CompareTasks(a, b) ==
    IF PriorityValue(b) # PriorityValue(a) THEN PriorityValue(b) - PriorityValue(a)
    ELSE IF Has(a, "dependencies") /\ Has(b, "dependencies")
            /\ Len(a.dependencies) # Len(b.dependencies)
    THEN Len(a.dependencies) - Len(b.dependencies)
    ELSE IdMinus(a.id, b.id)

\* Array.prototype.sort with CompareTasks (stable: insertion after the equals)
RECURSIVE InsertTask(_, _)
InsertTask(sorted, t) ==
    IF sorted = <<>> THEN <<t>>
    ELSE IF CompareTasks(t, Head(sorted)) < 0 THEN <<t>> \o sorted
    ELSE <<Head(sorted)>> \o InsertTask(Tail(sorted), t)

RECURSIVE SortTasks(_)
SortTasks(s) ==
    IF s = <<>> THEN <<>>
    ELSE InsertTask(SortTasks(SubSeq(s, 1, Len(s) - 1)), s[Len(s)])

CompletedTaskIds(tasks) == {tasks[i].id : i \in {j \in DOMAIN tasks : IsDone(tasks[j])}}

IsEligibleTask(tasks, task) ==
    /\ Has(task, "status") /\ task.status \in {"pending", "in-progress"}
    /\ Has(task, "dependencies")
    /\ \A i \in DOMAIN task.dependencies : task.dependencies[i] \in CompletedTaskIds(tasks)

EligibleTasks(tasks) == Filter(tasks, LAMBDA t : IsEligibleTask(tasks, t))

\* found = FALSE is the null the function returns
FindNextTask(tasks) ==
    LET eligibleTasks == EligibleTasks(tasks)
    IN  IF Len(eligibleTasks) = 0 THEN [found |-> FALSE]
        ELSE [found |-> TRUE, task |-> SortTasks(eligibleTasks)[1]]

---------------------------------------------------------------------------
(* isTaskDependentOn.  The function keeps no visited set: a call that meets *)
(* again a task that is still being expanded recurses without end, and the  *)
(* engine throws a RangeError ("overflow").                                 *)

RECURSIVE IsTaskDependentOnRec(_, _, _, _)
RECURSIVE AnyDependentOn(_, _, _, _)

IsTaskDependentOnRec(allTasks, task, targetTaskId, stack) ==
    IF task \in stack THEN "overflow"
    ELSE IF Has(task, "parentTaskId") /\ task.parentTaskId = targetTaskId THEN "true"
    ELSE IF Has(task, "dependencies") /\ Includes(task.dependencies, targetTaskId) THEN "true"
    ELSE LET depTasks ==
                 IF Has(task, "dependencies")
                 THEN LET found == Filter(task.dependencies,
                                          LAMBDA d : \E i \in DOMAIN allTasks : allTasks[i].id = d)
                      IN  [k \in DOMAIN found |->
                              allTasks[FindIndex(allTasks, LAMBDA t : t.id = found[k])]]
                 ELSE <<>>
             viaDeps == AnyDependentOn(allTasks, depTasks, targetTaskId, stack \cup {task})
         IN  IF viaDeps # "false" THEN viaDeps
             ELSE AnyDependentOn(allTasks, ArrOr(task, "subtasks"), targetTaskId,
                                 stack \cup {task})

\* for (const t of nodes) if (isTaskDependentOn(allTasks, t, target)) return true
AnyDependentOn(allTasks, nodes, targetTaskId, stack) ==
    IF nodes = <<>> THEN "false"
    ELSE LET r == IsTaskDependentOnRec(allTasks, Head(nodes), targetTaskId, stack)
         IN  IF r # "false" THEN r
             ELSE AnyDependentOn(allTasks, Tail(nodes), targetTaskId, stack)

IsTaskDependentOn(allTasks, task, targetTaskId) ==
    IsTaskDependentOnRec(allTasks, task, targetTaskId, {})

---------------------------------------------------------------------------
(* addSubtask(tasksPath, parentId, existingTaskId, newSubtaskData).         *)
(* hasExisting is existingTaskId !== null, hasData is newSubtaskData being  *)
(* truthy.  The result holds data.tasks as the call left it, the message of *)
(* the Error it threw ("" when it returned) and the subtask it returned.    *)

\* the number of siblings + 1
NextSubtaskIdByCount(subtasks) == Len(subtasks) + 1

\* (max existing sibling id, or 0) + 1
NextSubtaskId(subtasks) ==
    PlusOne(IF Len(subtasks) > 0 THEN MathMax(Ids(subtasks)) ELSE 0)

\* the object literal of Case 2
NewSubtask(newSubtaskId, newSubtaskData, parentIdNum) ==
    Spread(IF Has(newSubtaskData, "title") THEN [title |-> newSubtaskData.title]
           ELSE [id |-> newSubtaskId],
           [id |-> newSubtaskId,
            description |-> StrOr(newSubtaskData, "description", ""),
            details |-> StrOr(newSubtaskData, "details", ""),
            status |-> StrOr(newSubtaskData, "status", "pending"),
            dependencies |-> ArrOr(newSubtaskData, "dependencies"),
            parentTaskId |-> parentIdNum])

\* the conversion without the check of lines 1783-1785
ConvertExistingUnchecked(tasks, p, parentIdNum, existingTaskId) ==
    LET existingTaskIdNum == ParseInt(existingTaskId)
        e == FindIndex(tasks, LAMBDA t : IdEq(t.id, existingTaskIdNum))
    IN  IF e = 0 THEN [tasks |-> tasks, error |-> "Task not found"]
        ELSE IF Has(tasks[e], "parentTaskId") /\ tasks[e].parentTaskId # 0
        THEN [tasks |-> tasks, error |-> "Task is already a subtask"]
        ELSE LET newSubtask ==
                     Spread(tasks[e], [id |-> PlusOne(IF Len(tasks[p].subtasks) > 0
                                                      THEN MathMax(Ids(tasks[p].subtasks))
                                                      ELSE 0),
                                       parentTaskId |-> parentIdNum])
                 pushed == [tasks EXCEPT ![p] =
                               Spread(@, [subtasks |-> Append(@.subtasks, newSubtask)])]
             IN  [tasks |-> RemoveAt(pushed, e), error |-> "", newSubtask |-> newSubtask]

\* lines 1766-1809, on data.tasks whose parent p already has a subtasks array
ConvertExisting(tasks, p, parentIdNum, existingTaskId) ==
    LET existingTaskIdNum == ParseInt(existingTaskId)
        e == FindIndex(tasks, LAMBDA t : IdEq(t.id, existingTaskIdNum))
    IN  IF e = 0 THEN [tasks |-> tasks, error |-> "Task not found"]
        ELSE IF Has(tasks[e], "parentTaskId") /\ tasks[e].parentTaskId # 0
        THEN [tasks |-> tasks, error |-> "Task is already a subtask"]
        ELSE IF existingTaskIdNum.val = parentIdNum
        THEN [tasks |-> tasks, error |-> "Cannot make a task a subtask of itself"]
        ELSE LET dep == IsTaskDependentOn(tasks, tasks[p], existingTaskIdNum.val)
             IN  IF dep = "overflow"
                 THEN [tasks |-> tasks, error |-> "Maximum call stack size exceeded"]
                 ELSE IF dep = "true"
                 THEN [tasks |-> tasks, error |-> "Cannot create circular dependency"]
                 ELSE LET newSubtask ==
                              Spread(tasks[e], [id |-> NextSubtaskId(tasks[p].subtasks),
                                                parentTaskId |-> parentIdNum])
                          pushed == [tasks EXCEPT ![p] =
                                        Spread(@, [subtasks |-> Append(@.subtasks, newSubtask)])]
                      IN  [tasks |-> RemoveAt(pushed, e), error |-> "",
                           newSubtask |-> newSubtask]

AddSubtask(tasks, parentId, hasExisting, existingTaskId, hasData, newSubtaskData) ==
    LET parentIdNum == ParseInt(parentId)
        p == FindIndex(tasks, LAMBDA t : IdEq(t.id, parentIdNum))
    IN  IF p = 0 THEN [tasks |-> tasks, error |-> "Parent task not found"]
        ELSE LET \* if (!parentTask.subtasks) parentTask.subtasks = []
                 inited == IF Has(tasks[p], "subtasks") THEN tasks
                           ELSE [tasks EXCEPT ![p] = Spread(@, [subtasks |-> <<>>])]
             IN  IF hasExisting
                 THEN ConvertExisting(inited, p, parentIdNum.val, existingTaskId)
                 ELSE IF hasData
                 THEN LET newSubtask == NewSubtask(NextSubtaskId(inited[p].subtasks),
                                                   newSubtaskData, parentIdNum.val)
                      IN  [tasks |-> [inited EXCEPT ![p] =
                                         Spread(@, [subtasks |-> Append(@.subtasks, newSubtask)])],
                           error |-> "", newSubtask |-> newSubtask]
                 ELSE [tasks |-> inited,
                       error |-> "Either existingTaskId or newSubtaskData must be provided"]

---------------------------------------------------------------------------
(* removeSubtask(tasksPath, subtaskId, convertToTask) *)

\* the object literal of lines 1960-1968 and the push of the parent id
ConvertedTask(tasks, removedSubtask, parentTask, parentId) ==
    LET deps == ArrOr(removedSubtask, "dependencies")
    IN  Spread(IF Has(removedSubtask, "title") THEN [title |-> removedSubtask.title]
               ELSE [id |-> 0],
               [id |-> PlusOne(MathMax(Ids(tasks))),
                description |-> StrOr(removedSubtask, "description", ""),
                details |-> StrOr(removedSubtask, "details", ""),
                status |-> StrOr(removedSubtask, "status", "pending"),
                dependencies |-> IF Includes(deps, parentId) THEN deps
                                 ELSE Append(deps, parentId),
                priority |-> StrOr(parentTask, "priority", "medium")])

RemoveSubtask(tasks, subtaskId, convertToTask) ==
    IF ~Includes(subtaskId, ".")
    THEN [tasks |-> tasks, error |-> "Invalid subtask ID format", converted |-> FALSE]
    ELSE
    LET parts == Split(subtaskId, ".")
        parentId == ParseInt(parts[1])
        subtaskIdNum == ParseInt(parts[2])
        p == FindIndex(tasks, LAMBDA t : IdEq(t.id, parentId))
    IN  IF p = 0
        THEN [tasks |-> tasks, error |-> "Parent task not found", converted |-> FALSE]
        ELSE IF ~Has(tasks[p], "subtasks") \/ Len(tasks[p].subtasks) = 0
        THEN [tasks |-> tasks, error |-> "Parent task has no subtasks", converted |-> FALSE]
        ELSE
        LET s == FindIndex(tasks[p].subtasks, LAMBDA st : IdEq(st.id, subtaskIdNum))
        IN  IF s = 0
            THEN [tasks |-> tasks, error |-> "Subtask not found", converted |-> FALSE]
            ELSE
            LET removedSubtask == tasks[p].subtasks[s]
                rest == RemoveAt(tasks[p].subtasks, s)
                parentTask == IF Len(rest) = 0 THEN Delete(tasks[p], "subtasks")
                              ELSE Spread(tasks[p], [subtasks |-> rest])
                removed == [tasks EXCEPT ![p] = parentTask]
            IN  IF convertToTask
                THEN LET convertedTask ==
                             ConvertedTask(removed, removedSubtask, parentTask, parentId.val)
                     IN  [tasks |-> Append(removed, convertedTask), error |-> "",
                          converted |-> TRUE, convertedTask |-> convertedTask]
                ELSE [tasks |-> removed, error |-> "", converted |-> FALSE]

---------------------------------------------------------------------------
(* validateAndFixDependencies (dependency-manager.js): the Integrity        *)
(* Validator and Repairer.  A node is <<i, 0>> for the task at index i and  *)
(* <<i, j>> for the subtask at index j of that task; an edge is a position  *)
(* in the node's dependency list (0 for the implicit edge to the parent).   *)

NoNode == <<0, 0>>

FlatNodes(tasks) ==
    LET RECURSIVE From(_)
        From(i) ==
            IF i > Len(tasks) THEN <<>>
            ELSE <<<<i, 0>>>>
                 \o [j \in 1..Len(ArrOr(tasks[i], "subtasks")) |-> <<i, j>>]
                 \o From(i + 1)
    IN  From(1)

NodeAt(tasks, n) == IF n[2] = 0 THEN tasks[n[1]] ELSE tasks[n[1]].subtasks[n[2]]

\* sibling subtask ids first, then task ids
ResolveDependency(tasks, n, d) ==
    LET k == IF n[2] = 0 THEN 0
             ELSE FindIndex(tasks[n[1]].subtasks, LAMBDA st : st.id = d)
        t == FindIndex(tasks, LAMBDA x : x.id = d)
    IN  IF k # 0 THEN <<n[1], k>> ELSE IF t # 0 THEN <<t, 0>> ELSE NoNode

\* positions of the dependency values of n that resolve to nothing
DanglingPositions(tasks, n) ==
    LET deps == ArrOr(NodeAt(tasks, n), "dependencies")
    IN  {i \in DOMAIN deps : ResolveDependency(tasks, n, deps[i]) = NoNode}

FindDanglingDependencies(tasks) ==
    LET nodes == FlatNodes(tasks)
        RECURSIVE Collect(_, _)
        Collect(k, pos) ==
            IF k > Len(nodes) THEN <<>>
            ELSE LET deps == ArrOr(NodeAt(tasks, nodes[k]), "dependencies")
                 IN  IF pos > Len(deps) THEN Collect(k + 1, 1)
                     ELSE (IF pos \in DanglingPositions(tasks, nodes[k])
                           THEN <<[node |-> nodes[k], position |-> pos,
                                   value |-> deps[pos], reason |-> "dangling"]>>
                           ELSE <<>>) \o Collect(k, pos + 1)
    IN  Collect(1, 1)

\* the outgoing edges of n in traversal order
EdgesOf(tasks, n) ==
    LET deps == ArrOr(NodeAt(tasks, n), "dependencies")
        explicit == [i \in DOMAIN deps |->
                        [position |-> i, target |-> ResolveDependency(tasks, n, deps[i])]]
    IN  Filter(explicit, LAMBDA e : e.target # NoNode)
        \o (IF n[2] = 0 THEN <<>> ELSE <<[position |-> 0, target |-> <<n[1], 0>>]>>)

\* the whole traversal stack
WholeStack(stack, m) == stack

\* the path from node m to the top of the traversal stack
RECURSIVE PathFrom(_, _)
PathFrom(stack, m) ==
    IF stack = <<>> THEN <<>>
    ELSE IF Head(stack) = m THEN stack
    ELSE PathFrom(Tail(stack), m)

\* three-colour depth-first traversal: inProgress and done are the marked
\* nodes, stack the in-progress path, cycles what was reported so far
RECURSIVE Visit(_, _, _)
RECURSIVE VisitEdges(_, _, _, _)

Visit(tasks, n, st) ==
    LET entered == [st EXCEPT !.inProgress = @ \cup {n}, !.stack = Append(@, n)]
        left == VisitEdges(tasks, n, EdgesOf(tasks, n), entered)
    IN  [left EXCEPT !.inProgress = @ \ {n}, !.done = @ \cup {n},
                     !.stack = SubSeq(@, 1, Len(@) - 1)]

VisitEdges(tasks, n, edges, st) ==
    IF edges = <<>> THEN st
    ELSE LET e == Head(edges)
         IN  IF e.target \in st.inProgress
             THEN VisitEdges(tasks, n, Tail(edges),
                             [st EXCEPT !.cycles =
                                 Append(@, [path |-> PathFrom(st.stack, e.target),
                                            node |-> n, position |-> e.position])])
             ELSE IF e.target \in st.done
             THEN VisitEdges(tasks, n, Tail(edges), st)
             ELSE VisitEdges(tasks, n, Tail(edges), Visit(tasks, e.target, st))

\* a traversal from the first node only
FindCyclesFromFirst(tasks) ==
    IF tasks = <<>> THEN <<>>
    ELSE Visit(tasks, <<1, 0>>,
               [inProgress |-> {}, done |-> {}, stack |-> <<>>, cycles |-> <<>>]).cycles

FindCycles(tasks) ==
    LET nodes == FlatNodes(tasks)
        RECURSIVE Scan(_, _)
        Scan(k, st) ==
            IF k > Len(nodes) THEN st
            ELSE IF nodes[k] \in st.done THEN Scan(k + 1, st)
            ELSE Scan(k + 1, Visit(tasks, nodes[k], st))
    IN  Scan(1, [inProgress |-> {}, done |-> {}, stack |-> <<>>, cycles |-> <<>>]).cycles

\* the dangling positions only
RemovedDanglingOnly(tasks, cycles, n) == DanglingPositions(tasks, n)

\* the positions repair removes from the dependency list of n, given the
\* cycles the validator found
RemovedPositions(tasks, cycles, n) ==
    DanglingPositions(tasks, n)
    \cup {cycles[c].position : c \in {x \in DOMAIN cycles : cycles[x].node = n}}

PruneDependencies(tasks, cycles, n) ==
    LET o == NodeAt(tasks, n)
        removed == RemovedPositions(tasks, cycles, n)
        RECURSIVE Keep(_)
        Keep(i) ==
            IF i > Len(o.dependencies) THEN <<>>
            ELSE (IF i \in removed THEN <<>> ELSE <<o.dependencies[i]>>) \o Keep(i + 1)
    IN  IF Has(o, "dependencies") /\ removed # {}
        THEN Spread(o, [dependencies |-> Keep(1)])
        ELSE o

\* repair(): every dangling edge and every cycle-closing edge is removed
Repair(tasks) ==
    LET cycles == FindCycles(tasks)
    IN  [i \in DOMAIN tasks |->
            LET t == PruneDependencies(tasks, cycles, <<i, 0>>)
            IN  IF Has(t, "subtasks")
                THEN Spread(t, [subtasks |-> [j \in DOMAIN t.subtasks |->
                                   PruneDependencies(tasks, cycles, <<i, j>>)]])
                ELSE t]

\* the change report of repair()
RepairReport(tasks) ==
    LET cycles == FindCycles(tasks)
    IN  FindDanglingDependencies(tasks)
        \o [c \in DOMAIN cycles |->
               [node |-> cycles[c].node, position |-> cycles[c].position,
                value |-> NodeAt(tasks, cycles[c].node).dependencies[cycles[c].position],
                reason |-> "cyclic"]]

---------------------------------------------------------------------------
(* addTask(tasksPath, prompt, dependencies, priority).  taskData is what    *)
(* the text-completion call produced: [ok |-> FALSE] when the call threw   *)
(* or its text was no JSON, else the parsed object with the fields it has.  *)

\* dependencies without the ids of no task
ValidDependencies(tasks, dependencies) ==
    LET invalidDeps == Filter(dependencies,
                              LAMBDA d : ~(\E i \in DOMAIN tasks : tasks[i].id = d))
    IN  IF Len(invalidDeps) > 0
        THEN Filter(dependencies, LAMBDA d : ~Includes(invalidDeps, d))
        ELSE dependencies

AddTask(tasks, dependencies, priority, taskData) ==
    LET newTaskId == PlusOne(MathMax(Ids(tasks)))
    IN  IF ~taskData.ok
        THEN [tasks |-> tasks, error |-> "Error generating task", newTaskId |-> newTaskId]
        ELSE IF StrOr(taskData, "title", "") = "" \/ StrOr(taskData, "description", "") = ""
        THEN [tasks |-> tasks, error |-> "Missing required fields in the generated task",
              newTaskId |-> newTaskId]
        ELSE LET newTask ==
                     [id |-> newTaskId,
                      title |-> taskData.title,
                      description |-> taskData.description,
                      status |-> "pending",
                      dependencies |-> ValidDependencies(tasks, dependencies),
                      priority |-> priority,
                      details |-> StrOr(taskData, "details", ""),
                      testStrategy |-> StrOr(taskData, "testStrategy",
                                             "Manually verify the implementation works as expected.")]
             IN  [tasks |-> Repair(Append(tasks, newTask)), error |-> "",
                  newTaskId |-> newTaskId]

---------------------------------------------------------------------------
(* expandTask, generateSubtasks and parseSubtasksFromText.  A response of   *)
(* the generator is [kind |-> "missingKey"] (no API key: generateSubtasks   *)
(* throws), [kind |-> "apiError"] (the call threw, or its text holds no     *)
(* JSON array) or [kind |-> "array", items |-> ...], the parsed array.  An  *)
(* item is [isObject |-> FALSE] or an object with the fields it has; an id  *)
(* and a dependency entry are [type |-> "number", value |-> n] or a value   *)
(* of another type.                                                         *)

IsNumber(v) == v.type = "number"

\* the object built for one parsed item (lines 528-537)
ValidatedSubtask(subtask, expectedId) ==
    [id |-> IF Has(subtask, "id") /\ IsNumber(subtask.id) THEN subtask.id.value
            ELSE expectedId,
     \* the placeholder is `Subtask ${expectedId}`; the number is not kept
     title |-> StrOr(subtask, "title", "Subtask"),
     description |-> StrOr(subtask, "description", "No description provided."),
     status |-> "pending",
     dependencies |-> LET numeric == Filter(ArrOr(subtask, "dependencies"), IsNumber)
                      IN  [i \in DOMAIN numeric |-> numeric[i].value],
     priority |-> StrOr(subtask, "priority", "medium"),
     details |-> StrOr(subtask, "details", "No details provided."),
     testStrategy |-> StrOr(subtask, "testStrategy", "Manual verification.")]

\* parsed.map(...).filter(subtask => subtask !== null)
ValidatedSubtasks(parsed, startId) ==
    LET RECURSIVE From(_)
        From(i) ==
            IF i > Len(parsed) THEN <<>>
            ELSE (IF parsed[i].isObject
                  THEN <<ValidatedSubtask(parsed[i], startId + (i - 1))>>
                  ELSE <<>>) \o From(i + 1)
    IN  From(1)

\* the catch of parseSubtasksFromText returns [] for every failure
ParseSubtasksFromText(response, startId) ==
    IF response.kind = "array" THEN ValidatedSubtasks(response.items, startId) ELSE <<>>

ExpandTask(tasks, taskId, response) ==
    LET p == FindIndex(tasks, LAMBDA t : t.id = taskId)
    IN  IF p = 0 THEN [tasks |-> tasks, error |-> "Task not found", written |-> FALSE]
        ELSE IF IsDone(tasks[p]) THEN [tasks |-> tasks, error |-> "", written |-> FALSE]
        ELSE LET inited == IF Has(tasks[p], "subtasks") THEN tasks
                           ELSE [tasks EXCEPT ![p] = Spread(@, [subtasks |-> <<>>])]
                 nextSubtaskId == IF Len(inited[p].subtasks) > 0
                                  THEN PlusOne(MathMax(Ids(inited[p].subtasks)))
                                  ELSE 1
             IN  IF response.kind = "missingKey"
                 THEN [tasks |-> inited, error |-> "GEMINI_API_KEY is missing",
                       written |-> FALSE]
                 ELSE [tasks |-> [inited EXCEPT ![p] =
                                     Spread(@, [subtasks |-> @.subtasks
                                         \o ParseSubtasksFromText(response, nextSubtaskId)])],
                       error |-> "", written |-> TRUE]

\* generateTaskFiles renders the document it reads after repairing its copy
GenerateTaskFiles(tasks) == Repair(tasks)

---------------------------------------------------------------------------
(* Documents the commands start from, and the arguments they are given *)

MkTask(id, status, priority, dependencies) ==
    [id |-> id, title |-> "task", description |-> "about", details |-> "",
     testStrategy |-> "", status |-> status, priority |-> priority,
     dependencies |-> dependencies]

\* a subtask as expandTask admits it
MkSubtask(id, status, priority, dependencies) ==
    [id |-> id, title |-> "sub", description |-> "about",
     details |-> "No details provided.", testStrategy |-> "Manual verification.",
     status |-> status, priority |-> priority,
     dependencies |-> dependencies]

WithSubtasks(task, subtasks) == Spread(task, [subtasks |-> subtasks])

InitialDocuments ==
    { \* three tasks, the first done
      << MkTask(1, "done", "medium", <<>>),
         MkTask(2, "pending", "high", <<1>>),
         MkTask(3, "pending", "low", <<1>>) >>,
      \* a task with two subtasks, the second depending on the first
      << WithSubtasks(MkTask(1, "pending", "low", <<>>),
                      << MkSubtask(1, "pending", "high", <<>>),
                         MkSubtask(2, "done", "medium", <<1>>) >>),
         MkTask(2, "in-progress", "medium", <<1>>) >>,
      \* a subtask of task 2 depends on its sibling 1, and a task 1 exists
      << MkTask(1, "pending", "medium", <<>>),
         WithSubtasks(MkTask(2, "deferred", "medium", <<>>),
                      << MkSubtask(1, "done", "medium", <<>>),
                         MkSubtask(2, "pending", "medium", <<1>>) >>) >>,
      \* task 3 depends on task 2, and task 1 already has a subtask
      << WithSubtasks(MkTask(1, "in-progress", "high", <<>>),
                      << MkSubtask(1, "in-progress", "medium", <<>>) >>),
         MkTask(2, "pending", "medium", <<>>),
         MkTask(3, "pending", "medium", <<2>>) >>,
      \* task 2 depends on the task of highest id
      << MkTask(1, "pending", "medium", <<>>),
         MkTask(2, "pending", "medium", <<3>>),
         MkTask(3, "pending", "medium", <<>>) >>,
      \* no task yet
      << >> }

Str1 == <<"1">>
Str2 == <<"2">>
Str3 == <<"3">>
Str9 == <<"9">>
Str1_1 == <<"1", ".", "1">>
Str1_2 == <<"1", ".", "2">>
Str2_1 == <<"2", ".", "1">>
Str2_2 == <<"2", ".", "2">>

\* --id and --status of set-status
SetStatusInputs ==
    ({Str1, Str2, Str1_1, Str1_2, Str2_2}
        \X {"pending", "in-progress", "done", "completed"})
    \cup ({ <<"1", ",", "2">>, <<"9", ",", " ", "1">>, <<"1", ",", "9", ",", "2">>,
            <<"1", ".", "2", ".", "3">>, <<"x">>, <<"2", ".", "x">> } \X {"done"})
    \cup ({Str1, Str2_2} \X {"DONE", "deferred"})
    \cup ({Str9, <<"9", ".", "1">>, <<"1", ".", "9">>, <<"2", "x">>} \X {"done"})

ParentIdInputs == {Str1, Str2, Str9}

NewSubtaskInputs ==
    { [title |-> "new"],
      [title |-> "new", status |-> "in-progress", dependencies |-> <<1>>],
      [title |-> "new", description |-> "about", dependencies |-> <<2, 4>>] }

ConvertInputs ==
    ({Str1, Str2, Str3} \X {Str1, Str2, Str3}) \cup {<<Str1, Str9>>, <<Str9, Str1>>}

RemoveSubtaskInputs ==
    ({Str1_1, Str1_2, Str2_1} \X BOOLEAN)
    \cup ({Str1, <<"9", ".", "1">>, <<"1", ".", "9">>, <<"1", ".", "2", ".", "3">>}
              \X {FALSE})

AddTaskInputs ==
    ({<<>>, <<1>>, <<2, 9>>} \X {"medium"}
        \X {[ok |-> TRUE, title |-> "added", description |-> "about"]})
    \cup { <<<<1>>, "high", [ok |-> TRUE, title |-> "added", description |-> "about",
                              details |-> "how", testStrategy |-> "test"]>>,
           <<<<>>, "medium", [ok |-> TRUE, title |-> "added"]>>,
           <<<<1>>, "medium", [ok |-> FALSE]>> }

Num(n) == [type |-> "number", value |-> n]

GeneratorResponses ==
    { [kind |-> "missingKey"],
      [kind |-> "apiError"],
      \* what the prompt asks for, without ids
      [kind |-> "array",
       items |-> << [isObject |-> TRUE, title |-> "gen", description |-> "about",
                     dependencies |-> <<>>],
                    [isObject |-> TRUE, title |-> "gen", dependencies |-> <<Num(1)>>] >>],
      \* ids chosen by the generator, a string among the dependencies
      [kind |-> "array",
       items |-> << [isObject |-> TRUE, id |-> Num(1), title |-> "gen",
                     dependencies |-> <<[type |-> "string", value |-> 0]>>],
                    [isObject |-> TRUE, id |-> Num(1), priority |-> "high"] >>],
      \* a non-object entry and an id that is a string
      [kind |-> "array",
       items |-> << [isObject |-> FALSE],
                    [isObject |-> TRUE, id |-> [type |-> "string", value |-> 0],
                     status |-> "done"] >>] }

ExpandTaskInputs == {1, 2} \X GeneratorResponses \cup {<<9, [kind |-> "apiError"]>>}

---------------------------------------------------------------------------
(* The commands.  Each reads tasks.json, works on what it read and calls    *)
(* writeJSON only when nothing threw before; generateTaskFiles runs after   *)
(* the write (generateFiles has its default, true).                         *)

Init ==
    /\ tasksFile \in InitialDocuments
    /\ before = tasksFile
    /\ data = tasksFile
    /\ last = [op |-> "none", error |-> ""]
    /\ taskFiles = <<>>
    /\ steps = 0

\* writeJSON then readJSON: the document as JSON text gives it back, an id
\* that is not a finite number as null
WriteJSON(tasks) ==
    [i \in DOMAIN tasks |->
        IF tasks[i].id = NegInfinity THEN Spread(tasks[i], [id |-> NullId]) ELSE tasks[i]]

\* the end of a command that writes on every path
FinishAlwaysWritten(mem, written, generated, record) ==
    /\ steps < MaxOps
    /\ steps' = steps + 1
    /\ before' = tasksFile
    /\ data' = mem
    /\ tasksFile' = WriteJSON(mem)
    /\ taskFiles' = IF generated THEN GenerateTaskFiles(mem) ELSE taskFiles
    /\ last' = record

\* the end of a command: mem is data.tasks, written tells whether writeJSON ran
Finish(mem, written, generated, record) ==
    /\ steps < MaxOps
    /\ steps' = steps + 1
    /\ before' = tasksFile
    /\ data' = mem
    /\ tasksFile' = IF written THEN WriteJSON(mem) ELSE tasksFile
    /\ taskFiles' = IF generated THEN GenerateTaskFiles(WriteJSON(mem)) ELSE taskFiles
    /\ last' = record

SetTaskStatus ==
    \E in \in SetStatusInputs :
        LET r == UpdateEach(tasksFile, TaskIdsOf(in[1]), in[2], <<>>, <<>>)
        IN  Finish(r.tasks, r.error = "", r.error = "",
                   [op |-> "setTaskStatus", taskIdInput |-> in[1], newStatus |-> in[2],
                    error |-> r.error, updatedTasks |-> r.updatedTasks,
                    advisories |-> r.advisories])

NextCommand ==
    Finish(tasksFile, FALSE, FALSE,
           [op |-> "findNextTask", error |-> "", result |-> FindNextTask(tasksFile)])

AddNewSubtask ==
    \E parentId \in ParentIdInputs, hasData \in BOOLEAN :
      \E newSubtaskData \in IF hasData THEN NewSubtaskInputs ELSE {[title |-> ""]} :
        LET r == AddSubtask(tasksFile, parentId, FALSE, <<>>, hasData, newSubtaskData)
        IN  Finish(r.tasks, r.error = "", r.error = "",
                   [op |-> "addSubtask", parentId |-> parentId, hasData |-> hasData,
                    newSubtaskData |-> newSubtaskData, error |-> r.error,
                    result |-> r])

ConvertTaskToSubtask ==
    \E in \in ConvertInputs :
        LET r == AddSubtask(tasksFile, in[1], TRUE, in[2], FALSE, [title |-> ""])
        IN  Finish(r.tasks, r.error = "", r.error = "",
                   [op |-> "convertTaskToSubtask", parentId |-> in[1],
                    existingTaskId |-> in[2], error |-> r.error, result |-> r])

RemoveSubtaskCommand ==
    \E in \in RemoveSubtaskInputs :
        LET r == RemoveSubtask(tasksFile, in[1], in[2])
        IN  Finish(r.tasks, r.error = "", r.error = "",
                   [op |-> "removeSubtask", subtaskId |-> in[1], convertToTask |-> in[2],
                    error |-> r.error, result |-> r])

AddTaskCommand ==
    \E in \in AddTaskInputs :
        LET r == AddTask(tasksFile, in[1], in[2], in[3])
        IN  Finish(r.tasks, r.error = "", FALSE,
                   [op |-> "addTask", dependencies |-> in[1], priority |-> in[2],
                    taskData |-> in[3], error |-> r.error, newTaskId |-> r.newTaskId])

ExpandTaskCommand ==
    \E in \in ExpandTaskInputs :
        LET r == ExpandTask(tasksFile, in[1], in[2])
        IN  Finish(r.tasks, r.written, r.written,
                   [op |-> "expandTask", taskId |-> in[1], response |-> in[2],
                    error |-> r.error, written |-> r.written])

Next ==
    \/ SetTaskStatus
    \/ NextCommand
    \/ AddNewSubtask
    \/ ConvertTaskToSubtask
    \/ RemoveSubtaskCommand
    \/ AddTaskCommand
    \/ ExpandTaskCommand

Spec == Init /\ [][Next]_vars

---------------------------------------------------------------------------
(* Notions the properties below are stated with *)

StatusOf(o) == IF Has(o, "status") THEN o.status ELSE "undefined"

\* the statuses of a node and of everything below it
RECURSIVE StatusTree(_)
StatusTree(o) ==
    [status |-> StatusOf(o),
     subtasks |-> [j \in DOMAIN ArrOr(o, "subtasks") |-> StatusTree(o.subtasks[j])]]

NormalizesToDone(status) == ToLowerCase(status) \in {"done", "completed"}

NodeSet(tasks) == Range(FlatNodes(tasks))

IsSubtaskNode(n) == n[2] # 0

EdgeTargets(tasks, n) == {e.target : e \in Range(EdgesOf(tasks, n))}

\* the nodes reached from n by one edge or more
ReachableFrom(tasks, n) ==
    LET RECURSIVE Grow(_)
        Grow(S) ==
            LET T == S \cup UNION {EdgeTargets(tasks, m) : m \in S}
            IN  IF T = S THEN S ELSE Grow(T)
    IN  Grow(EdgeTargets(tasks, n))

HasCycle(tasks) == \E n \in NodeSet(tasks) : n \in ReachableFrom(tasks, n)

\* pending or in-progress, and every dependency value resolves to a done node
NodeEligible(tasks, n) ==
    LET o == NodeAt(tasks, n)
        deps == ArrOr(o, "dependencies")
    IN  /\ StatusOf(o) \in {"pending", "in-progress"}
        /\ \A i \in DOMAIN deps :
               LET m == ResolveDependency(tasks, n, deps[i])
               IN  m # NoNode /\ IsDone(NodeAt(tasks, m))

EligibleNodes(tasks) == {n \in NodeSet(tasks) : NodeEligible(tasks, n)}

\* high before medium before low, a missing priority counted as medium
PriorityRank(o) ==
    IF ~Has(o, "priority") THEN 2
    ELSE CASE o.priority = "high" -> 1
           [] o.priority = "low" -> 3
           [] OTHER -> 2

\* a ranks strictly better than b
RanksBefore(a, b) ==
    LET da == Len(ArrOr(a, "dependencies"))
        db == Len(ArrOr(b, "dependencies"))
    IN  \/ PriorityRank(a) < PriorityRank(b)
        \/ PriorityRank(a) = PriorityRank(b) /\ da < db
        \/ PriorityRank(a) = PriorityRank(b) /\ da = db /\ a.id < b.id

UniqueIds(tasks) ==
    /\ \A i, j \in DOMAIN tasks : i # j => tasks[i].id # tasks[j].id
    /\ \A i \in DOMAIN tasks :
           LET subs == ArrOr(tasks[i], "subtasks")
           IN  \A j, k \in DOMAIN subs : j # k => subs[j].id # subs[k].id

\* the last command was set-status on the single task address it names
SingleTaskStatus ==
    /\ last.op = "setTaskStatus"
    /\ Len(TaskIdsOf(last.taskIdInput)) = 1
    /\ ~Includes(last.taskIdInput, ".")

\* index in the document read of the task the last set-status addressed
AddressedTask == FindIndex(before, LAMBDA t : IdEq(t.id, ParseInt(last.taskIdInput)))

---------------------------------------------------------------------------
(* C1: after setStatus(T, s) with s "done" or "completed" on a task T that  *)
(* has subtasks, every subtask of T has a status that normalizes to done,   *)
(* the subtasks that were done keep their status, and no status of another  *)
(* task or subtask changes.                                                 *)
C1_CascadeToSubtasks ==
    (/\ SingleTaskStatus
     /\ last.error = ""
     /\ NormalizesToDone(last.newStatus)
     /\ Len(ArrOr(before[AddressedTask], "subtasks")) > 0)
    => LET p == AddressedTask
       IN  /\ DOMAIN data = DOMAIN before
           /\ DOMAIN data[p].subtasks = DOMAIN before[p].subtasks
           /\ \A j \in DOMAIN data[p].subtasks :
                  /\ NormalizesToDone(StatusOf(data[p].subtasks[j]))
                  /\ IsDone(before[p].subtasks[j])
                         => data[p].subtasks[j].status = before[p].subtasks[j].status
                  /\ StatusTree(data[p].subtasks[j]).subtasks
                         = StatusTree(before[p].subtasks[j]).subtasks
           /\ \A i \in DOMAIN data : i # p => StatusTree(data[i]) = StatusTree(before[i])
           /\ tasksFile = data

\* a task with a pending and a done subtask was set to "completed"
C1_Witness ==
    /\ SingleTaskStatus
    /\ last.error = ""
    /\ last.newStatus = "completed"
    /\ AddressedTask # 0
    /\ Has(before[AddressedTask], "subtasks")
    /\ \E j, k \in DOMAIN before[AddressedTask].subtasks :
           /\ before[AddressedTask].subtasks[j].status = "pending"
           /\ data[AddressedTask].subtasks[j].status = "completed"
           /\ before[AddressedTask].subtasks[k].status = "done"
           /\ data[AddressedTask].subtasks[k].status = "done"

---------------------------------------------------------------------------
(* C2: in a batch set-status, an address that fails does not keep the other *)
(* addresses of the batch, those after it included, from being updated:     *)
(* every address of the batch that resolves has received the new status.    *)
C2_BatchContinuesPastFailure ==
    (last.op = "setTaskStatus" /\ last.error # "")
    => LET taskIds == TaskIdsOf(last.taskIdInput)
       IN  \A k \in DOMAIN taskIds :
               UpdateSingleTaskStatus(before, taskIds[k], last.newStatus).error = ""
               => UpdateSingleTaskStatus(data, taskIds[k], last.newStatus).tasks = data

---------------------------------------------------------------------------
(* C3: selectNext returns a node only if the node is pending or in-progress *)
(* with every dependency value resolving to a done node, and it returns     *)
(* "no eligible node" exactly when no task or subtask is eligible.          *)
C3_NextIsEligibleOrNone ==
    last.op = "findNextTask"
    => /\ last.result.found
              => \E n \in EligibleNodes(before) : NodeAt(before, n) = last.result.task
       /\ ~last.result.found <=> EligibleNodes(before) = {}

---------------------------------------------------------------------------
(* C4: no eligible node, task or subtask, ranks strictly before the node    *)
(* selectNext returns (priority, then fewer dependencies, then lower id).   *)
C4_NextIsBestRanked ==
    (last.op = "findNextTask" /\ last.result.found)
    => \A n \in EligibleNodes(before) : ~RanksBefore(NodeAt(before, n), last.result.task)

---------------------------------------------------------------------------
(* C5: a subtask that is the only eligible node is the node selectNext      *)
(* returns.                                                                 *)
C5_SubtaskIsCandidate ==
    (/\ last.op = "findNextTask"
     /\ Cardinality(EligibleNodes(before)) = 1
     /\ \A n \in EligibleNodes(before) : IsSubtaskNode(n))
    => /\ last.result.found
       /\ \A n \in EligibleNodes(before) : last.result.task = NodeAt(before, n)

\* What the selector does guarantee: its answer is an eligible top-level
\* task that no eligible top-level task ranks before, and it answers none
\* exactly when no top-level task is eligible.
NextAmongTasks ==
    last.op = "findNextTask"
    => LET eligible == {n \in EligibleNodes(before) : ~IsSubtaskNode(n)}
       IN  /\ ~last.result.found <=> eligible = {}
           /\ last.result.found
                  => /\ \E n \in eligible : NodeAt(before, n) = last.result.task
                     /\ \A n \in eligible :
                            ~RanksBefore(NodeAt(before, n), last.result.task)

---------------------------------------------------------------------------
(* Structural edits *)

StructuralOps == {"addTask", "addSubtask", "convertTaskToSubtask", "removeSubtask"}

\* the numbers the last conversion was called with
ConvertParentId == ParseInt(last.parentId)
ConvertExistingId == ParseInt(last.existingTaskId)

\* indices, in the document read, of the parent and of the task to convert
ConvertParent == FindIndex(before, LAMBDA t : IdEq(t.id, ConvertParentId))
ConvertTarget == FindIndex(before, LAMBDA t : IdEq(t.id, ConvertExistingId))

\* the sequence s without its element at position i
Without(s, i) == [k \in 1..(Len(s) - 1) |-> IF k < i THEN s[k] ELSE s[k + 1]]

\* the dependency lists of a task and of its subtasks
DependencyLists(t) ==
    [own |-> ArrOr(t, "dependencies"),
     subtasks |-> [j \in DOMAIN ArrOr(t, "subtasks") |->
                      ArrOr(t.subtasks[j], "dependencies")]]

---------------------------------------------------------------------------
(* C6: a completed addTask, addSubtask, convertTaskToSubtask or             *)
(* removeSubtask on a graph without cycle leaves a graph without cycle      *)
(* (subtask dependency values resolved sibling-first, each subtask with an  *)
(* implicit edge to its parent).                                            *)
C6_EditsKeepAcyclic ==
    (last.op \in StructuralOps /\ last.error = "" /\ ~HasCycle(before))
    => ~HasCycle(tasksFile)

---------------------------------------------------------------------------
(* C7: after a completed operation that creates nodes, task ids are         *)
(* pairwise distinct and subtask ids are pairwise distinct within each      *)
(* parent, whatever ids the generator returned.                             *)
C7_IdsStayUnique ==
    (/\ last.op \in StructuralOps \cup {"expandTask"}
     /\ last.error = ""
     /\ UniqueIds(before))
    => UniqueIds(tasksFile)

---------------------------------------------------------------------------
(* C8: a conversion that reaches the circularity check fails with           *)
(* CircularConversion exactly when the parent task reaches the target task  *)
(* through dependency edges (sibling-first) and subtask-to-parent edges.    *)
C8_CircularExactlyWhenAncestor ==
    (/\ last.op = "convertTaskToSubtask"
     /\ last.error \notin {"Parent task not found", "Task not found",
                           "Task is already a subtask",
                           "Cannot make a task a subtask of itself"})
    => (last.error = "Cannot create circular dependency"
        <=> <<ConvertTarget, 0>> \in ReachableFrom(before, <<ConvertParent, 0>>))

---------------------------------------------------------------------------
(* C9: a structural edit that fails leaves the graph in memory exactly as   *)
(* it was read, and persists nothing.                                       *)
C9_FailedEditChangesNothing ==
    (last.op \in StructuralOps /\ last.error # "")
    => data = before /\ tasksFile = before

---------------------------------------------------------------------------
(* C10: a successful convertTaskToSubtask removes the task from the         *)
(* top-level list, appends its content to the parent's subtasks under       *)
(* id = (max sibling id, or 0) + 1 with parentTaskId = parentId, and leaves *)
(* every other dependency list as it was.                                   *)
C10_ConversionEffect ==
    (last.op = "convertTaskToSubtask" /\ last.error = "")
    => LET p == ConvertParent
           e == ConvertTarget
           kept == Without(before, e)
           q == IF e < p THEN p - 1 ELSE p
           siblings == ArrOr(before[p], "subtasks")
           moved == tasksFile[q].subtasks[Len(siblings) + 1]
       IN  /\ Ids(tasksFile) = Ids(kept)
           /\ Len(tasksFile[q].subtasks) = Len(siblings) + 1
           /\ SubSeq(tasksFile[q].subtasks, 1, Len(siblings)) = siblings
           /\ moved.id = IF siblings = <<>> THEN 1 ELSE SetMax(Range(Ids(siblings))) + 1
           /\ moved.parentTaskId = ConvertParentId.val
           /\ DOMAIN moved = DOMAIN before[e] \cup {"parentTaskId"}
           /\ \A f \in DOMAIN before[e] \ {"id", "parentTaskId"} : moved[f] = before[e][f]
           /\ \A i \in DOMAIN kept :
                  /\ i # q => tasksFile[i] = kept[i]
                  /\ DependencyLists(Delete(tasksFile[i], "subtasks"))
                         = DependencyLists(Delete(kept[i], "subtasks"))
           /\ Delete(tasksFile[q], "subtasks") = Delete(before[p], "subtasks")
           /\ data = tasksFile

\* a task that another task depends on was converted into a parent that
\* already had a subtask, and the dependency on its old id is still there
C10_Witness ==
    /\ last.op = "convertTaskToSubtask"
    /\ last.error = ""
    /\ Len(ArrOr(before[ConvertParent], "subtasks")) > 0
    /\ last.result.newSubtask.id > 1
    /\ \E i \in DOMAIN tasksFile :
           Includes(tasksFile[i].dependencies, ConvertExistingId.val)

---------------------------------------------------------------------------
(* The subtask a removeSubtask command addresses, in the graph as read.     *)

RemoveParentId == ParseInt(Split(last.subtaskId, ".")[1])

RemoveSubtaskId == ParseInt(Split(last.subtaskId, ".")[2])

RemoveParent == FindIndex(before, LAMBDA t : IdEq(t.id, RemoveParentId))

RemoveIndex ==
    FindIndex(before[RemoveParent].subtasks, LAMBDA st : IdEq(st.id, RemoveSubtaskId))

RemovedSubtask == before[RemoveParent].subtasks[RemoveIndex]

\* the fields a subtask shares with a task, its dependencies apart
InheritedFields == {"title", "description", "details", "testStrategy", "status", "priority"}

PromotedDependencies ==
    LET deps == ArrOr(RemovedSubtask, "dependencies")
    IN  IF Includes(deps, RemoveParentId.val) THEN deps
        ELSE Append(deps, RemoveParentId.val)

\* one task more, under the next task id, depending once more on the parent
PromotedIdAndDependencies ==
    (last.op = "removeSubtask" /\ last.convertToTask /\ last.error = "")
    => LET new == tasksFile[Len(tasksFile)]
       IN  /\ Len(tasksFile) = Len(before) + 1
           /\ Ids(SubSeq(tasksFile, 1, Len(before))) = Ids(before)
           /\ new.id = SetMax(Range(Ids(before))) + 1
           /\ new.dependencies = PromotedDependencies
           /\ ~Has(new, "parentTaskId")

(* C11: removeSubtask with convertToTask creates exactly one new top-level  *)
(* task, under id = (max existing task id) + 1, with the fields of the      *)
(* removed subtask and with the subtask's dependency list to which the      *)
(* former parent's id is appended if and only if it was not in it.          *)
C11_PromotedTaskInheritsSubtask ==
    (last.op = "removeSubtask" /\ last.convertToTask /\ last.error = "")
    => LET new == tasksFile[Len(tasksFile)]
       IN  /\ Len(tasksFile) = Len(before) + 1
           /\ Ids(SubSeq(tasksFile, 1, Len(before))) = Ids(before)
           /\ new.id = SetMax(Range(Ids(before))) + 1
           /\ new.dependencies = PromotedDependencies
           /\ \A f \in InheritedFields \cap DOMAIN RemovedSubtask :
                  Has(new, f) /\ new[f] = RemovedSubtask[f]

\* the fields of C11 other than the priority
PromotedTaskKeepsText ==
    (last.op = "removeSubtask" /\ last.convertToTask /\ last.error = "")
    => LET new == tasksFile[Len(tasksFile)]
       IN  \A f \in (InheritedFields \ {"priority"}) \cap DOMAIN RemovedSubtask :
               Has(new, f) /\ new[f] = RemovedSubtask[f]

---------------------------------------------------------------------------
(* C12: the task removeSubtask creates with convertToTask has the priority  *)
(* of the removed subtask when the subtask has one, and the parent's        *)
(* priority only when the subtask has none.                                 *)
C12_PromotedTaskKeepsPriority ==
    (last.op = "removeSubtask" /\ last.convertToTask /\ last.error = "")
    => LET new == tasksFile[Len(tasksFile)]
       IN  new.priority = IF StrOr(RemovedSubtask, "priority", "") # ""
                          THEN RemovedSubtask.priority
                          ELSE StrOr(before[RemoveParent], "priority", "medium")

---------------------------------------------------------------------------
(* C13: removeSubtask without convertToTask removes the addressed subtask   *)
(* from its parent's list, deletes the parent's subtasks field when the     *)
(* list becomes empty, and changes nothing else: the siblings keep their    *)
(* ids, order and dependency lists, every other task is as it was.          *)
C13_PlainRemovalEffect ==
    (last.op = "removeSubtask" /\ ~last.convertToTask /\ last.error = "")
    => LET p == RemoveParent
           rest == Without(before[p].subtasks, RemoveIndex)
       IN  /\ Len(tasksFile) = Len(before)
           /\ \A i \in DOMAIN before : i # p => tasksFile[i] = before[i]
           /\ \A f \in DOMAIN before[p] \ {"subtasks"} :
                  Has(tasksFile[p], f) /\ tasksFile[p][f] = before[p][f]
           /\ DOMAIN tasksFile[p] \subseteq DOMAIN before[p]
           /\ IF rest = <<>> THEN ~Has(tasksFile[p], "subtasks")
              ELSE Has(tasksFile[p], "subtasks") /\ tasksFile[p].subtasks = rest
           /\ data = tasksFile

\* a subtask was removed while a sibling that depends on it stays, with the
\* dependency as it was
C13_Witness ==
    /\ last.op = "removeSubtask"
    /\ ~last.convertToTask
    /\ last.error = ""
    /\ Has(tasksFile[RemoveParent], "subtasks")
    /\ \E j \in DOMAIN tasksFile[RemoveParent].subtasks :
           Includes(tasksFile[RemoveParent].subtasks[j].dependencies, RemovedSubtask.id)

\* the last subtask of a task was removed
LastSubtaskRemoved ==
    /\ last.op = "removeSubtask"
    /\ ~last.convertToTask
    /\ last.error = ""
    /\ ~Has(tasksFile[RemoveParent], "subtasks")

---------------------------------------------------------------------------
(* C14: addSubtask with a payload on an existing task appends one subtask   *)
(* under id = (max sibling id, or 0) + 1, pending unless the payload gives  *)
(* a status, and changes no other node; when parentId resolves to no task   *)
(* it fails with "Parent task not found" and changes nothing.               *)
AddParent == FindIndex(before, LAMBDA t : IdEq(t.id, ParseInt(last.parentId)))

C14_NewSubtaskIdAndStatus ==
    (last.op = "addSubtask" /\ last.hasData)
    => IF AddParent = 0
       THEN /\ last.error = "Parent task not found"
            /\ data = before
            /\ tasksFile = before
       ELSE LET p == AddParent
                siblings == ArrOr(before[p], "subtasks")
                new == tasksFile[p].subtasks[Len(siblings) + 1]
            IN  /\ last.error = ""
                /\ Len(tasksFile) = Len(before)
                /\ \A i \in DOMAIN before : i # p => tasksFile[i] = before[i]
                /\ \A f \in DOMAIN before[p] \ {"subtasks"} : tasksFile[p][f] = before[p][f]
                /\ Len(tasksFile[p].subtasks) = Len(siblings) + 1
                /\ SubSeq(tasksFile[p].subtasks, 1, Len(siblings)) = siblings
                /\ new.id = IF siblings = <<>> THEN 1
                            ELSE SetMax(Range(Ids(siblings))) + 1
                /\ new.status = IF Has(last.newSubtaskData, "status")
                                THEN last.newSubtaskData.status ELSE "pending"
                /\ new.parentTaskId = before[p].id
                /\ last.result.newSubtask = new

\* a payload with a status was added to a task whose subtask ids have a gap
C14_Witness ==
    /\ last.op = "addSubtask"
    /\ last.hasData
    /\ last.error = ""
    /\ AddParent # 0
    /\ Has(before[AddParent], "subtasks")
    /\ LET siblings == before[AddParent].subtasks
       IN  /\ siblings # <<>>
           /\ SetMax(Range(Ids(siblings))) > Len(siblings)
    /\ last.result.newSubtask.status = "in-progress"

\* the scenario: a payload without status on a task 2 without subtasks
FirstSubtaskOfTaskTwo ==
    /\ last.op = "addSubtask"
    /\ last.hasData
    /\ last.error = ""
    /\ AddParent # 0
    /\ before[AddParent].id = 2
    /\ ~Has(before[AddParent], "subtasks")
    /\ last.result.newSubtask.id = 1
    /\ last.result.newSubtask.status = "pending"

\* the parent id resolves to no task
AddSubtaskParentMissing ==
    /\ last.op = "addSubtask"
    /\ last.hasData
    /\ last.error = "Parent task not found"

---------------------------------------------------------------------------
(* C15: a completed addTask appends one task under id = (max existing task  *)
(* id) + 1 whose dependencies are exactly the supplied values that are ids  *)
(* of existing tasks, in the order supplied; so each of them is the id of   *)
(* an existing task and is strictly lower than the new id.                  *)
SuppliedAndExisting ==
    SelectSeq(last.dependencies, LAMBDA d : \E i \in DOMAIN before : before[i].id = d)

PositiveIds(tasks) == tasks # <<>> /\ \A i \in DOMAIN tasks : tasks[i].id > 0

C15_NewTaskIdAndDependencies ==
    (last.op = "addTask" /\ last.error = "" /\ PositiveIds(before))
    => LET new == tasksFile[Len(tasksFile)]
       IN  /\ Len(tasksFile) = Len(before) + 1
           /\ new.id = SetMax(Range(Ids(before))) + 1
           /\ new.dependencies = SuppliedAndExisting
           /\ \A d \in Range(new.dependencies) :
                  /\ \E i \in DOMAIN before : before[i].id = d
                  /\ d < new.id

\* no dependency list of the graph as read names the id the new task gets
NoStaleDependencyOnNewId ==
    \A n \in NodeSet(before) :
        ~Includes(ArrOr(NodeAt(before, n), "dependencies"), last.newTaskId)

\* C15 where the new id is named by no dependency left behind
NewTaskDependenciesUnlessStale ==
    (last.op = "addTask" /\ last.error = "" /\ PositiveIds(before)
        /\ NoStaleDependencyOnNewId)
    => LET new == tasksFile[Len(tasksFile)]
       IN  /\ Len(tasksFile) = Len(before) + 1
           /\ new.id = SetMax(Range(Ids(before))) + 1
           /\ new.dependencies = SuppliedAndExisting

\* whatever is stored, the dependencies of the new task are ids of existing
\* tasks, lower than its own
NewTaskDependsOnLowerIds ==
    (last.op = "addTask" /\ last.error = "" /\ PositiveIds(before))
    => LET new == tasksFile[Len(tasksFile)]
       IN  /\ new.id = SetMax(Range(Ids(before))) + 1
           /\ \A d \in Range(new.dependencies) :
                  /\ \E i \in DOMAIN before : before[i].id = d
                  /\ d < new.id

\* a task was added with one supplied dependency kept and one dropped
AddTaskKeepsOneOfTwo ==
    /\ last.op = "addTask"
    /\ last.error = ""
    /\ PositiveIds(before)
    /\ Len(last.dependencies) = 2
    /\ Len(tasksFile[Len(tasksFile)].dependencies) = 1

---------------------------------------------------------------------------
(* Addresses, as the Identifier Scheme defines them.                        *)

\* a positive integer in decimal digits
IsPositiveNumeral(seg) ==
    /\ seg # <<>>
    /\ \A i \in DOMAIN seg : IsDigit(seg[i])
    /\ \E i \in DOMAIN seg : seg[i] # "0"

CountOf(s, c) == Len(SelectSeq(s, LAMBDA x : x = c))

\* "T" or "T.S" with T and S positive integers
WellFormedAddress(s) ==
    /\ CountOf(s, ".") <= 1
    /\ \A k \in DOMAIN Split(s, ".") : IsPositiveNumeral(Split(s, ".")[k])

NumeralValue(seg) == ParseInt(seg).val

\* the node a well-formed address names in tasks: <<i, j>>, or NoNode
AddressedNode(tasks, s) ==
    LET segs == Split(s, ".")
        i == FindIndex(tasks, LAMBDA t : t.id = NumeralValue(segs[1]))
    IN  IF i = 0 THEN NoNode
        ELSE IF Len(segs) = 1 THEN <<i, 0>>
        ELSE LET j == FindIndex(ArrOr(tasks[i], "subtasks"),
                                LAMBDA st : st.id = NumeralValue(segs[2]))
             IN  IF j = 0 THEN NoNode ELSE <<i, j>>

\* the last command was set-status on one address
SingleStatus ==
    /\ last.op = "setTaskStatus"
    /\ Len(TaskIdsOf(last.taskIdInput)) = 1

StatusAddress == TaskIdsOf(last.taskIdInput)[1]

CountsAsDone(o) == StatusOf(o) \in {"done", "completed"}

NotFoundErrors ==
    {"Task not found", "Parent task not found", "Parent task has no subtasks",
     "Subtask not found"}

---------------------------------------------------------------------------
(* C16: setStatus on a subtask leaves its parent task and every other task  *)
(* as they were, whatever the new status, and reports the advisory exactly  *)
(* when, after the update, every subtask of the parent is done and the      *)
(* parent is not.                                                           *)
C16_SubtaskStatusLeavesParent ==
    (/\ SingleStatus
     /\ WellFormedAddress(StatusAddress)
     /\ AddressedNode(before, StatusAddress) # NoNode
     /\ IsSubtaskNode(AddressedNode(before, StatusAddress)))
    => LET n == AddressedNode(before, StatusAddress)
           p == n[1]
       IN  /\ last.error = ""
           /\ Len(data) = Len(before)
           /\ \A i \in DOMAIN before : i # p => data[i] = before[i]
           /\ DOMAIN data[p] = DOMAIN before[p]
           /\ \A f \in DOMAIN before[p] \ {"subtasks"} : data[p][f] = before[p][f]
           /\ Len(data[p].subtasks) = Len(before[p].subtasks)
           /\ \A j \in DOMAIN before[p].subtasks :
                  data[p].subtasks[j] =
                      IF j = n[2] THEN Spread(before[p].subtasks[j],
                                              [status |-> last.newStatus])
                      ELSE before[p].subtasks[j]
           /\ (last.advisories # <<>>)
                  <=> (/\ \A j \in DOMAIN data[p].subtasks : CountsAsDone(data[p].subtasks[j])
                       /\ ~CountsAsDone(data[p]))
           /\ tasksFile = data

\* the last open subtask of a task that is not done was set to completed,
\* and the advisory was reported
C16_Witness ==
    /\ SingleStatus
    /\ last.error = ""
    /\ Includes(StatusAddress, ".")
    /\ last.newStatus = "completed"
    /\ last.advisories = <<StatusAddress>>
    /\ \E i \in DOMAIN data : StatusOf(data[i]) = "deferred" /\ Has(data[i], "subtasks")

\* every subtask is done after the update, the parent is done already, and
\* no advisory is reported
NoAdvisoryUnderDoneParent ==
    /\ SingleStatus
    /\ last.error = ""
    /\ WellFormedAddress(StatusAddress)
    /\ AddressedNode(before, StatusAddress) # NoNode
    /\ IsSubtaskNode(AddressedNode(before, StatusAddress))
    /\ LET p == AddressedNode(before, StatusAddress)[1]
       IN  /\ \A j \in DOMAIN data[p].subtasks : CountsAsDone(data[p].subtasks[j])
           /\ CountsAsDone(data[p])
    /\ last.advisories = <<>>

---------------------------------------------------------------------------
(* C17: setStatus on a well-formed address that names no node (no such      *)
(* task, no such parent, a parent without subtasks, no such subtask) fails  *)
(* with a not-found error, changes no status and writes nothing.            *)
C17_MissingAddressNotFound ==
    (/\ SingleStatus
     /\ WellFormedAddress(StatusAddress)
     /\ AddressedNode(before, StatusAddress) = NoNode)
    => /\ last.error \in NotFoundErrors
       /\ data = before
       /\ tasksFile = before

\* the address of a subtask that its existing parent does not have
C17_Witness ==
    /\ SingleStatus
    /\ StatusAddress = <<"1", ".", "9">>
    /\ \E i \in DOMAIN before : before[i].id = 1 /\ Len(ArrOr(before[i], "subtasks")) > 0
    /\ last.error = "Subtask not found"

\* the other ways of naming no node
MissingTaskAddressed ==
    SingleStatus /\ before # <<>> /\ last.error = "Task not found"
        /\ WellFormedAddress(StatusAddress)

MissingParentAddressed ==
    SingleStatus /\ before # <<>> /\ last.error = "Parent task not found"
        /\ WellFormedAddress(StatusAddress)

ParentWithoutSubtasksAddressed ==
    SingleStatus /\ last.error = "Parent task has no subtasks"
        /\ WellFormedAddress(StatusAddress)

---------------------------------------------------------------------------
(* C18: an address with more than one ".", with a segment that is not a     *)
(* number, or with an id that is not positive is rejected by setStatus and  *)
(* by removeSubtask, and no node is changed under a truncated or coerced    *)
(* reading of it.                                                           *)
C18_MalformedAddressRejected ==
    /\ (SingleStatus /\ ~WellFormedAddress(StatusAddress))
           => (last.error # "" /\ data = before /\ tasksFile = before)
    /\ (last.op = "removeSubtask" /\ ~WellFormedAddress(last.subtaskId))
           => (last.error # "" /\ data = before /\ tasksFile = before)

---------------------------------------------------------------------------
(* C19: convertTaskToSubtask with existingTaskId equal to parentId, on an   *)
(* existing task, fails with "Cannot make a task a subtask of itself", and  *)
(* the task is still in the top-level list, in memory and in the file.      *)
C19_SelfConversionRejected ==
    (/\ last.op = "convertTaskToSubtask"
     /\ last.parentId = last.existingTaskId
     /\ ConvertParent # 0)
    => /\ last.error = "Cannot make a task a subtask of itself"
       /\ Ids(data) = Ids(before)
       /\ tasksFile = before

\* task 1, which has subtasks, was to become a subtask of itself
C19_Witness ==
    /\ last.op = "convertTaskToSubtask"
    /\ last.parentId = Str1
    /\ last.existingTaskId = Str1
    /\ ConvertParent # 0
    /\ Len(ArrOr(before[ConvertParent], "subtasks")) > 0
    /\ last.error = "Cannot make a task a subtask of itself"

---------------------------------------------------------------------------
(* C20: after a completed addSubtask, convertTaskToSubtask or               *)
(* removeSubtask, every subtask that has a parentTaskId, at whatever depth, *)
(* is an element of the subtasks of the top-level task with that id.        *)
RECURSIVE SubtasksBelow(_)
SubtasksBelow(o) ==
    UNION { {o.subtasks[j]} \cup SubtasksBelow(o.subtasks[j]) :
            j \in DOMAIN ArrOr(o, "subtasks") }

ParentLinksHold(tasks) ==
    \A i \in DOMAIN tasks : \A st \in SubtasksBelow(tasks[i]) :
        Has(st, "parentTaskId")
        => \E k \in DOMAIN tasks :
               /\ tasks[k].id = st.parentTaskId
               /\ st \in Range(ArrOr(tasks[k], "subtasks"))

C20_ParentLinksKept ==
    (/\ last.op \in {"addSubtask", "convertTaskToSubtask", "removeSubtask"}
     /\ last.error = ""
     /\ ParentLinksHold(before))
    => ParentLinksHold(tasksFile)

---------------------------------------------------------------------------
(* C26: the reachability check of a conversion terminates: no conversion    *)
(* ends with the call stack exhausted by a task that is expanded again and  *)
(* again.                                                                   *)
C26_ReachabilityCheckTerminates ==
    last.op = "convertTaskToSubtask" => last.error # "Maximum call stack size exceeded"

---------------------------------------------------------------------------
(* C28: set-status writes the document only when every address of the      *)
(* batch was updated; when an address fails the document persisted is the   *)
(* one that was read, whatever was updated in memory before the failure.    *)
C28_BatchWrittenOnlyWhenComplete ==
    last.op = "setTaskStatus"
    => IF last.error = ""
       THEN /\ last.updatedTasks = TaskIdsOf(last.taskIdInput)
            /\ tasksFile = data
       ELSE tasksFile = before

\* the second address of a batch failed after the first was updated in memory
C28_Witness ==
    /\ last.op = "setTaskStatus"
    /\ last.error # ""
    /\ last.updatedTasks # <<>>
    /\ data # before
    /\ tasksFile = before

---------------------------------------------------------------------------
(* C29: after a completed addSubtask, convertTaskToSubtask or               *)
(* removeSubtask on a graph of two levels, no subtask has a subtasks list   *)
(* of its own.                                                              *)
TwoLevels(tasks) ==
    \A i \in DOMAIN tasks : \A j \in DOMAIN ArrOr(tasks[i], "subtasks") :
        ~Has(tasks[i].subtasks[j], "subtasks")

C29_TwoLevelsKept ==
    (/\ last.op \in {"addSubtask", "convertTaskToSubtask", "removeSubtask"}
     /\ last.error = ""
     /\ TwoLevels(before))
    => TwoLevels(tasksFile)

---------------------------------------------------------------------------
(* C30: the id addTask assigns is a positive integer, in the task it        *)
(* returns and in the document it writes, also when the list was empty.     *)
C30_AddTaskIdPositive ==
    (last.op = "addTask" /\ last.error = "")
    => /\ last.newTaskId \in Nat \ {0}
       /\ tasksFile[Len(tasksFile)].id \in Nat \ {0}

\* after the first task of a list, the next addTask assigns 1
AddTaskAfterNullId ==
    /\ last.op = "addTask"
    /\ last.error = ""
    /\ Len(before) = 1
    /\ before[1].id = NullId
    /\ last.newTaskId = 1

---------------------------------------------------------------------------
(* ai-services.js: one task-generation request of parsePRD.  Text that is  *)
(* searched (error messages) is a sequence of characters.  An error is     *)
(* [message |-> characters, status |-> "400", "500", ... or "undefined"];  *)
(* what the streaming call gives is [kind |-> "error", error |-> e] or     *)
(* [kind |-> "text", text |-> t], where t is the response text as           *)
(* processApiResponse reads it: [kind |-> "noJson"] (no braces),            *)
(* [kind |-> "syntax"] (JSON.parse throws) or [kind |-> "object", ...],     *)
(* the parsed object with the fields it has.                                *)

UpperCaseLetters ==
    <<"A", "B", "C", "D", "E", "F", "G", "H", "I", "J", "K", "L", "M",
      "N", "O", "P", "Q", "R", "S", "T", "U", "V", "W", "X", "Y", "Z">>

LowerCaseLetters ==
    <<"a", "b", "c", "d", "e", "f", "g", "h", "i", "j", "k", "l", "m",
      "n", "o", "p", "q", "r", "s", "t", "u", "v", "w", "x", "y", "z">>

\* String.prototype.toLowerCase on a sequence of characters
LowerChars(s) ==
    [i \in DOMAIN s |->
        IF \E k \in DOMAIN UpperCaseLetters : UpperCaseLetters[k] = s[i]
        THEN LowerCaseLetters[CHOOSE k \in DOMAIN UpperCaseLetters :
                                  UpperCaseLetters[k] = s[i]]
        ELSE s[i]]

\* String.prototype.includes
StrIncludes(s, w) ==
    \E i \in 0..(Len(s) - Len(w)) : SubSeq(s, i + 1, i + Len(w)) = w

ApiKeyNotValidWord ==
    <<"A", "P", "I", " ", "k", "e", "y", " ", "n", "o", "t", " ", "v", "a",
      "l", "i", "d">>

QuotaWord ==
    <<"q", "u", "o", "t", "a">>

TimeoutWord ==
    <<"t", "i", "m", "e", "o", "u", "t">>

NetworkWord ==
    <<"n", "e", "t", "w", "o", "r", "k">>

FetchWord ==
    <<"f", "e", "t", "c", "h">>

ServiceName ==
    <<"G", "e", "n", "e", "r", "a", "t", "i", "v", "e", " ", "A", "I", " ",
      "S", "e", "r", "v", "i", "c", "e">>

StreamingName ==
    <<"G", "e", "n", "e", "r", "a", "t", "i", "v", "e", " ", "A", "I", " ",
      "S", "t", "r", "e", "a", "m", "i", "n", "g">>

InvalidKeyText ==
    <<" ", "E", "r", "r", "o", "r", ":", " ", "I", "n", "v", "a", "l", "i",
      "d", " ", "A", "P", "I", " ", "K", "e", "y", ".", " ", "P", "l", "e",
      "a", "s", "e", " ", "c", "h", "e", "c", "k", " ", "y", "o", "u", "r",
      " ", "G", "E", "M", "I", "N", "I", "_", "A", "P", "I", "_", "K", "E",
      "Y", ".">>

QuotaText ==
    <<" ", "E", "r", "r", "o", "r", ":", " ", "R", "a", "t", "e", " ", "l",
      "i", "m", "i", "t", " ", "o", "r", " ", "q", "u", "o", "t", "a", " ",
      "e", "x", "c", "e", "e", "d", "e", "d", ".", " ", "P", "l", "e", "a",
      "s", "e", " ", "c", "h", "e", "c", "k", " ", "y", "o", "u", "r", " ",
      "u", "s", "a", "g", "e", " ", "l", "i", "m", "i", "t", "s", " ", "o",
      "r", " ", "w", "a", "i", "t", " ", "a", "n", "d", " ", "t", "r", "y",
      " ", "a", "g", "a", "i", "n", ".">>

TimedOutHead ==
    <<"T", "h", "e", " ", "r", "e", "q", "u", "e", "s", "t", " ", "t", "o",
      " ">>

TimedOutTail ==
    <<" ", "t", "i", "m", "e", "d", " ", "o", "u", "t", ".", " ", "P", "l",
      "e", "a", "s", "e", " ", "t", "r", "y", " ", "a", "g", "a", "i", "n",
      ".">>

NetworkHead ==
    <<"T", "h", "e", "r", "e", " ", "w", "a", "s", " ", "a", " ", "n", "e",
      "t", "w", "o", "r", "k", " ", "e", "r", "r", "o", "r", " ", "c", "o",
      "n", "n", "e", "c", "t", "i", "n", "g", " ", "t", "o", " ">>

NetworkTail ==
    <<".", " ", "P", "l", "e", "a", "s", "e", " ", "c", "h", "e", "c", "k",
      " ", "y", "o", "u", "r", " ", "i", "n", "t", "e", "r", "n", "e", "t",
      " ", "c", "o", "n", "n", "e", "c", "t", "i", "o", "n", " ", "a", "n",
      "d", " ", "t", "r", "y", " ", "a", "g", "a", "i", "n", ".">>

BadRequestText ==
    <<" ", "E", "r", "r", "o", "r", ":", " ", "B", "a", "d", " ", "R", "e",
      "q", "u", "e", "s", "t", " ", "(", "4", "0", "0", ")", ".", " ", "T",
      "h", "e", " ", "i", "n", "p", "u", "t", " ", "m", "a", "y", " ", "b",
      "e", " ", "m", "a", "l", "f", "o", "r", "m", "e", "d", " ", "o", "r",
      " ", "i", "n", "v", "a", "l", "i", "d", ".", " ", "D", "e", "t", "a",
      "i", "l", "s", ":", " ">>

ServerErrorText ==
    <<" ", "E", "r", "r", "o", "r", ":", " ", "I", "n", "t", "e", "r", "n",
      "a", "l", " ", "S", "e", "r", "v", "e", "r", " ", "E", "r", "r", "o",
      "r", " ", "(", "5", "0", "0", ")", ".", " ", "T", "h", "e", " ", "s",
      "e", "r", "v", "i", "c", "e", " ", "m", "a", "y", " ", "b", "e", " ",
      "t", "e", "m", "p", "o", "r", "a", "r", "i", "l", "y", " ", "u", "n",
      "a", "v", "a", "i", "l", "a", "b", "l", "e", ".", " ", "D", "e", "t",
      "a", "i", "l", "s", ":", " ">>

DefaultHead ==
    <<"E", "r", "r", "o", "r", " ", "c", "o", "m", "m", "u", "n", "i", "c",
      "a", "t", "i", "n", "g", " ", "w", "i", "t", "h", " ">>

UnknownErrorText ==
    <<"A", "n", " ", "u", "n", "k", "n", "o", "w", "n", " ", "e", "r", "r",
      "o", "r", " ", "o", "c", "c", "u", "r", "r", "e", "d", ".">>

MissingKeyText ==
    <<"G", "E", "M", "I", "N", "I", "_", "A", "P", "I", "_", "K", "E", "Y",
      " ", "e", "n", "v", "i", "r", "o", "n", "m", "e", "n", "t", " ", "v",
      "a", "r", "i", "a", "b", "l", "e", " ", "i", "s", " ", "m", "i", "s",
      "s", "i", "n", "g", ".", " ", "C", "a", "n", "n", "o", "t", " ", "g",
      "e", "n", "e", "r", "a", "t", "e", " ", "t", "a", "s", "k", "s", ".">>

NoJsonText ==
    <<"C", "o", "u", "l", "d", " ", "n", "o", "t", " ", "f", "i", "n", "d",
      " ", "v", "a", "l", "i", "d", " ", "J", "S", "O", "N", " ", "i", "n",
      " ", "G", "e", "n", "e", "r", "a", "t", "i", "v", "e", " ", "A", "I",
      "'", "s", " ", "r", "e", "s", "p", "o", "n", "s", "e">>

NoTasksArrayText ==
    <<"G", "e", "n", "e", "r", "a", "t", "i", "v", "e", " ", "A", "I", "'",
      "s", " ", "r", "e", "s", "p", "o", "n", "s", "e", " ", "d", "o", "e",
      "s", " ", "n", "o", "t", " ", "c", "o", "n", "t", "a", "i", "n", " ",
      "a", " ", "v", "a", "l", "i", "d", " ", "t", "a", "s", "k", "s", " ",
      "a", "r", "r", "a", "y">>

SyntaxErrorText ==
    <<"U", "n", "e", "x", "p", "e", "c", "t", "e", "d", " ", "e", "n", "d",
      " ", "o", "f", " ", "J", "S", "O", "N", " ", "i", "n", "p", "u", "t">>

ReferenceErrorText ==
    <<"p", "r", "d", "C", "o", "n", "t", "e", "n", "t", " ", "i", "s", " ",
      "n", "o", "t", " ", "d", "e", "f", "i", "n", "e", "d">>

\* new Error(message): an Error has no status property
NewError(message) == [message |-> message, status |-> "undefined"]

HandleApiError(error, serviceName) ==
    IF StrIncludes(error.message, ApiKeyNotValidWord)
    THEN serviceName \o InvalidKeyText
    ELSE IF StrIncludes(error.message, QuotaWord)
    THEN serviceName \o QuotaText
    ELSE IF StrIncludes(LowerChars(error.message), TimeoutWord)
    THEN TimedOutHead \o serviceName \o TimedOutTail
    ELSE IF \/ StrIncludes(LowerChars(error.message), NetworkWord)
            \/ StrIncludes(LowerChars(error.message), FetchWord)
    THEN NetworkHead \o serviceName \o NetworkTail
    ELSE IF error.status = "400"
    THEN serviceName \o BadRequestText \o error.message
    ELSE IF error.status = "500"
    THEN serviceName \o ServerErrorText \o error.message
    ELSE DefaultHead \o serviceName \o <<":", " ">>
         \o (IF error.message = <<>> THEN UnknownErrorText ELSE error.message)

\* the try block of processApiResponse: what it returns or throws
ParseResponse(textContent) ==
    IF textContent.kind = "noJson"
    THEN [threw |-> TRUE, error |-> NewError(NoJsonText)]
    ELSE IF textContent.kind = "syntax"
    THEN [threw |-> TRUE, error |-> NewError(SyntaxErrorText)]
    ELSE IF ~Has(textContent, "tasks")
    THEN [threw |-> TRUE, error |-> NewError(NoTasksArrayText)]
    ELSE [threw |-> FALSE,
          value |-> [tasks |-> textContent.tasks,
                     metadata |-> IF Has(textContent, "metadata")
                                  THEN textContent.metadata
                                  ELSE [totalTasks |-> Len(textContent.tasks)]]]

\* the catch block calls callGenerativeAI(prdContent, ...) when retryCount is
\* 1; no prdContent is in scope there, so evaluating the arguments throws a
\* ReferenceError before any call is made
RECURSIVE ProcessApiResponse(_, _, _)
ProcessApiResponse(textContent, numTasks, retryCount) ==
    LET parsed == ParseResponse(textContent)
    IN  IF ~parsed.threw THEN parsed
        ELSE IF retryCount < 2
        THEN IF retryCount = 1
             THEN [threw |-> TRUE, error |-> NewError(ReferenceErrorText)]
             ELSE ProcessApiResponse(textContent, numTasks, retryCount + 1)
        ELSE parsed

\* what the stream gave is handled inside one try: an error of the request
\* and an error thrown by processApiResponse are both re-thrown as
\* new Error(handleApiError(error, ...))
HandleStreamingRequestGemini(outcome, numTasks, retryCount) ==
    LET r == IF outcome.kind = "error"
             THEN [threw |-> TRUE, error |-> outcome.error]
             ELSE ProcessApiResponse(outcome.text, numTasks, retryCount)
    IN  IF r.threw
        THEN [threw |-> TRUE,
              error |-> NewError(HandleApiError(r.error, StreamingName))]
        ELSE r

\* the retry condition of callGenerativeAI on the error it caught
ShouldRetry(error, retryCount) ==
    /\ retryCount < 2
    /\ \/ StrIncludes(LowerChars(error.message), TimeoutWord)
       \/ StrIncludes(LowerChars(error.message), NetworkWord)
       \/ StrIncludes(LowerChars(error.message), FetchWord)
       \/ error.status = "500"

WaitTimeFixed(retryCount) == 5000

WaitTime(retryCount) == (retryCount + 1) * 5000

\* a dependency entry of a generated record that is a JSON string
JsonString == -3000

\* errors the request to the service can fail with
StreamErrors ==
    {[kind |-> "error",
      error |-> [message |->
        <<"R", "e", "q", "u", "e", "s", "t", " ", "t", "i", "m", "e", "o", "u",
          "t">>,
                 status |-> "undefined"]],
     [kind |-> "error",
      error |-> [message |->
        <<"N", "e", "t", "w", "o", "r", "k", " ", "u", "n", "r", "e", "a", "c",
          "h", "a", "b", "l", "e">>,
                 status |-> "undefined"]],
     [kind |-> "error",
      error |-> [message |->
        <<"f", "e", "t", "c", "h", " ", "f", "a", "i", "l", "e", "d">>,
                 status |-> "undefined"]],
     [kind |-> "error",
      error |-> [message |->
        <<"I", "n", "t", "e", "r", "n", "a", "l", " ", "e", "r", "r", "o", "r",
          " ", "e", "n", "c", "o", "u", "n", "t", "e", "r", "e", "d">>,
                 status |-> "500"]],
     [kind |-> "error",
      error |-> [message |->
        <<"I", "n", "v", "a", "l", "i", "d", " ", "a", "r", "g", "u", "m", "e",
          "n", "t">>,
                 status |-> "400"]],
     [kind |-> "error",
      error |-> [message |->
        <<"A", "P", "I", " ", "k", "e", "y", " ", "n", "o", "t", " ", "v", "a",
          "l", "i", "d", ".", " ", "P", "l", "e", "a", "s", "e", " ", "p", "a",
          "s", "s", " ", "a", " ", "v", "a", "l", "i", "d", " ", "A", "P", "I",
          " ", "k", "e", "y", ".">>,
                 status |-> "400"]],
     [kind |-> "error",
      error |-> [message |->
        <<"R", "e", "s", "o", "u", "r", "c", "e", " ", "q", "u", "o", "t", "a",
          " ", "e", "x", "h", "a", "u", "s", "t", "e", "d">>,
                 status |-> "429"]],
     [kind |-> "error",
      error |-> [message |->
        <<>>,
                 status |-> "undefined"]]}

GeneratedTask(id) == MkTask(id, "pending", "medium", <<>>)

\* response texts of the service
StreamTexts ==
    {[kind |-> "text", text |-> t] : t \in
        {[kind |-> "noJson"],
         [kind |-> "syntax"],
         [kind |-> "object"],
         [kind |-> "object", tasks |-> <<>>],
         [kind |-> "object", tasks |-> <<GeneratedTask(1), GeneratedTask(2)>>,
          metadata |-> [totalTasks |-> 2]],
         [kind |-> "object",
          tasks |-> <<GeneratedTask(1),
                      [id |-> 2, description |-> "about", dependencies |-> <<1>>]>>],
         [kind |-> "object",
          tasks |-> <<GeneratedTask(1),
                      Spread(GeneratedTask(2), [dependencies |-> <<JsonString, 1>>])>>]}}

StreamOutcomes == StreamErrors \cup StreamTexts

GenInit ==
    /\ tasksFile \in InitialDocuments
    /\ before = tasksFile
    /\ data = tasksFile
    /\ \E hasKey \in BOOLEAN, numTasks \in {1, 2} :
           last = [op |-> "parsePRD", pc |-> "call", hasKey |-> hasKey,
                   numTasks |-> numTasks, retryCount |-> 0, calls |-> 0,
                   waits |-> <<>>, outcomes |-> <<>>, error |-> <<>>]
    /\ taskFiles = <<>>
    /\ steps = 0

\* callGenerativeAI up to its next await, and what parsePRD does with what it
\* returns or throws: on a return writeJSON and generateTaskFiles, on a throw
\* the message is printed and the process exits
CallGenerativeAI ==
    /\ last.pc = "call"
    /\ IF ~last.hasKey
       THEN /\ last' = [last EXCEPT !.pc = "failed", !.error = MissingKeyText]
            /\ steps' = steps + 1
            /\ UNCHANGED <<tasksFile, before, data, taskFiles>>
       ELSE \E outcome \in StreamOutcomes :
            LET r == HandleStreamingRequestGemini(outcome, last.numTasks,
                                                  last.retryCount)
                called == [last EXCEPT !.calls = @ + 1,
                                       !.outcomes = Append(@, outcome)]
            IN  IF ~r.threw
                THEN /\ last' = [called EXCEPT !.pc = "done"]
                     /\ data' = r.value.tasks
                     /\ tasksFile' = WriteJSON(r.value.tasks)
                     /\ taskFiles' = GenerateTaskFiles(WriteJSON(r.value.tasks))
                     /\ steps' = steps + 1
                     /\ UNCHANGED before
                ELSE IF ShouldRetry(r.error, last.retryCount)
                THEN /\ last' = [called EXCEPT
                                    !.pc = "wait",
                                    !.waits = Append(@, WaitTime(last.retryCount))]
                     /\ UNCHANGED <<tasksFile, before, data, taskFiles, steps>>
                ELSE /\ last' = [called EXCEPT
                                    !.pc = "failed",
                                    !.error = HandleApiError(r.error, ServiceName)]
                     /\ steps' = steps + 1
                     /\ UNCHANGED <<tasksFile, before, data, taskFiles>>

\* the timer of the wait fires: callGenerativeAI(..., retryCount + 1)
RetryAfterWait ==
    /\ last.pc = "wait"
    /\ last' = [last EXCEPT !.pc = "call", !.retryCount = @ + 1]
    /\ UNCHANGED <<tasksFile, before, data, taskFiles, steps>>

GenNext ==
    \/ CallGenerativeAI
    \/ RetryAfterWait

GenSpec == GenInit /\ [][GenNext]_vars

---------------------------------------------------------------------------
(* Claims about the task-generation request *)

LastOutcome == last.outcomes[Len(last.outcomes)]

\* the errors the retry comments of callGenerativeAI call transient
TransientError(e) ==
    \/ \E w \in {TimeoutWord, NetworkWord, FetchWord} :
           \E i \in 1..Len(e.message) :
               /\ i + Len(w) - 1 <= Len(e.message)
               /\ \A k \in 1..Len(w) : LowerChars(<<e.message[i + k - 1]>>) = <<w[k]>>
    \/ e.status = "500"

Admissible(o) ==
    /\ Has(o, "title")
    /\ Has(o, "status")
    /\ \A i \in DOMAIN ArrOr(o, "dependencies") : o.dependencies[i] # JsonString

\* C24: every record the generator returned is validated and defaulted
\* before it enters the graph: after parsePRD has written the generated
\* tasks, each of them has a title and a status and holds only numeric
\* dependencies.
C24_GeneratedRecordsValidated ==
    (last.op = "parsePRD" /\ last.pc = "done")
        => \A i \in DOMAIN tasksFile : Admissible(tasksFile[i])

C27_TransientErrorRetried ==
    ~ /\ last.op = "parsePRD"
      /\ last.pc = "failed"
      /\ last.calls > 0
      /\ last.retryCount < 2
      /\ LastOutcome.kind = "error"
      /\ TransientError(LastOutcome.error)

\* the errors that are still retried: those whose message names the network
\* or a fetch
NetworkErrorRetried ==
    (/\ last.op = "parsePRD"
     /\ last.pc \in {"failed", "wait"}
     /\ last.calls > 0
     /\ last.retryCount < 2
     /\ LastOutcome.kind = "error"
     /\ ~StrIncludes(LastOutcome.error.message, ApiKeyNotValidWord)
     /\ ~StrIncludes(LastOutcome.error.message, QuotaWord)
     /\ ~StrIncludes(LowerChars(LastOutcome.error.message), TimeoutWord)
     /\ \/ StrIncludes(LowerChars(LastOutcome.error.message), NetworkWord)
        \/ StrIncludes(LowerChars(LastOutcome.error.message), FetchWord))
        => last.pc = "wait"

\* the two transient errors that end the request at the first call
TimeoutNotRetried ==
    /\ last.op = "parsePRD"
    /\ last.pc = "failed"
    /\ last.calls = 1
    /\ LastOutcome.kind = "error"
    /\ StrIncludes(LowerChars(LastOutcome.error.message), TimeoutWord)

ServerErrorNotRetried ==
    /\ last.op = "parsePRD"
    /\ last.pc = "failed"
    /\ last.calls = 1
    /\ LastOutcome.kind = "error"
    /\ LastOutcome.error.status = "500"

\* the subtask-like records: what expandTask admits was validated by
\* parseSubtasksFromText
GeneratedSubtasksAdmissible ==
    last.op = "expandTask" =>
        \A i \in DOMAIN tasksFile :
            \A j \in DOMAIN ArrOr(tasksFile[i], "subtasks") :
                Admissible(tasksFile[i].subtasks[j])

---------------------------------------------------------------------------
(* The Integrity Validator and Repairer applied to graphs: the documents   *)
(* are three tasks with every dependency list of at most MaxDeps task ids, *)
(* and a task with two subtasks beside a second task, with dependency      *)
(* values that resolve to a sibling, to a task or to nothing.              *)

MaxDeps == 2

\* the lists of at most MaxDeps different values of ids
DependencyListsOver(ids) ==
    {s \in UNION {[1..k -> ids] : k \in 0..MaxDeps} :
        \A i, j \in DOMAIN s : i # j => s[i] # s[j]}

TaskGraphs ==
    {<<MkTask(1, "pending", "medium", d1), MkTask(2, "pending", "medium", d2),
       MkTask(3, "pending", "medium", d3)>> :
        d1 \in DependencyListsOver({1, 2, 3}),
        d2 \in DependencyListsOver({1, 2, 3}),
        d3 \in DependencyListsOver({1, 2, 3})}

\* subtasks 1.1 and 1.3: 1 and 3 name the siblings, 2 the task, 4 nothing
SubtaskGraphs ==
    {<<WithSubtasks(MkTask(1, "pending", "medium", d1),
                    <<MkSubtask(1, "pending", "medium", s1),
                      MkSubtask(3, "pending", "medium", s3)>>),
       MkTask(2, "pending", "medium", d2)>> :
        d1 \in {<<>>, <<2>>},
        d2 \in {<<>>, <<1>>, <<4, 2>>},
        s1 \in DependencyListsOver({1, 2, 3, 4}),
        s3 \in DependencyListsOver({1, 2, 3, 4})}

Graphs == TaskGraphs \cup SubtaskGraphs

RepairInit ==
    /\ tasksFile \in Graphs
    /\ before = tasksFile
    /\ data = tasksFile
    /\ last = [op |-> "none", error |-> ""]
    /\ taskFiles = <<>>
    /\ steps = 0

\* findCycles() on the loaded graph
FindCyclesQuery ==
    /\ steps < MaxOps
    /\ steps' = steps + 1
    /\ before' = data
    /\ last' = [op |-> "findCycles", cycles |-> FindCycles(data), error |-> ""]
    /\ UNCHANGED <<tasksFile, data, taskFiles>>

\* findDanglingDependencies() on the loaded graph
FindDanglingQuery ==
    /\ steps < MaxOps
    /\ steps' = steps + 1
    /\ before' = data
    /\ last' = [op |-> "findDanglingDependencies",
                dangling |-> FindDanglingDependencies(data), error |-> ""]
    /\ UNCHANGED <<tasksFile, data, taskFiles>>

\* repair() on the loaded graph: it changes the graph in memory and does
\* not persist; runs counts the calls in a row
RepairCommand ==
    /\ steps < MaxOps
    /\ steps' = steps + 1
    /\ before' = data
    /\ data' = Repair(data)
    /\ last' = [op |-> "repair", report |-> RepairReport(data),
                runs |-> IF last.op = "repair" THEN last.runs + 1 ELSE 1,
                error |-> ""]
    /\ UNCHANGED <<tasksFile, taskFiles>>

RepairNext ==
    \/ FindCyclesQuery
    \/ FindDanglingQuery
    \/ RepairCommand

RepairSpec == RepairInit /\ [][RepairNext]_vars

---------------------------------------------------------------------------
(* Claims about the validator and the repairer *)

\* every dependency value of every node resolves
NoDangling(tasks) ==
    \A n \in NodeSet(tasks) :
        \A i \in DOMAIN ArrOr(NodeAt(tasks, n), "dependencies") :
            ResolveDependency(tasks, n, NodeAt(tasks, n).dependencies[i]) # NoNode

\* C21: after one repair no dangling dependency and no cycle is left, and a
\* second repair in a row reports zero changes and leaves the graph as the
\* first left it.
C21_RepairIdempotent ==
    last.op = "repair" =>
        /\ NoDangling(data)
        /\ ~HasCycle(data)
        /\ last.runs >= 2 => (last.report = <<>> /\ data = before)

\* a second repair after a first one that removed a dangling and a cyclic
\* dependency
C21_Witness ==
    /\ last.op = "repair"
    /\ last.runs = 2
    /\ ~NoDangling(tasksFile)
    /\ HasCycle(tasksFile)
    /\ data # tasksFile

\* the pairs <<n, m>> with an edge from n to m
EdgePairs(tasks) ==
    {<<n, m>> : n \in NodeSet(tasks), m \in NodeSet(tasks)} \cap
    UNION {{<<n, m>> : m \in EdgeTargets(tasks, n)} : n \in NodeSet(tasks)}

\* the number of dependency values and implicit edges that are edges
EdgeCount(tasks) ==
    LET nodes == FlatNodes(tasks)
        RECURSIVE Sum(_)
        Sum(k) == IF k > Len(nodes) THEN 0
                  ELSE Len(EdgesOf(tasks, nodes[k])) + Sum(k + 1)
    IN  Sum(1)

\* the only edges are A -> B, B -> C and C -> A
ThreeCycleOnly(tasks) ==
    /\ EdgeCount(tasks) = 3
    /\ \E a, b, c \in NodeSet(tasks) :
           /\ Cardinality({a, b, c}) = 3
           /\ EdgePairs(tasks) = {<<a, b>>, <<b, c>>, <<c, a>>}

SelfDependent(tasks) == {n \in NodeSet(tasks) : n \in EdgeTargets(tasks, n)}

\* C22: findCycles returns nothing for an acyclic graph, exactly one cycle
\* holding A, B and C when the only edges are A -> B, B -> C and C -> A, a
\* cycle of length one for a node that depends on itself, and changes
\* nothing in the store.
C22_FindCyclesCases ==
    last.op = "findCycles" =>
        /\ ~HasCycle(data) => last.cycles = <<>>
        /\ ThreeCycleOnly(data) =>
               /\ Len(last.cycles) = 1
               /\ Range(last.cycles[1].path) = NodeSet(data)
        /\ \A n \in SelfDependent(data) :
               \E c \in DOMAIN last.cycles : last.cycles[c].path = <<n>>
        /\ data = before

C22_Witness ==
    /\ last.op = "findCycles"
    /\ ThreeCycleOnly(data)
    /\ Len(last.cycles) = 1

\* a reported cycle of length one behind another node of the traversal
SelfDependencyReported ==
    /\ last.op = "findCycles"
    /\ <<2, 0>> \in SelfDependent(data)
    /\ <<<<1, 0>>, <<2, 0>>>> \in EdgePairs(data)
    /\ \E c \in DOMAIN last.cycles : last.cycles[c].path = <<<<2, 0>>>>

\* the edges of the closed path p
PathEdges(p) ==
    {<<p[i], p[i + 1]>> : i \in 1..(Len(p) - 1)} \cup {<<p[Len(p)], p[1]>>}

\* the closed paths without a repeated node: the cycles of the graph, each
\* once for every node it can start from
SimpleCycles(tasks) ==
    {p \in UNION {[1..k -> NodeSet(tasks)] : k \in 1..Cardinality(NodeSet(tasks))} :
        /\ \A i, j \in DOMAIN p : i # j => p[i] # p[j]
        /\ PathEdges(p) \subseteq EdgePairs(tasks)}

ReportedCycles == {PathEdges(last.cycles[c].path) : c \in DOMAIN last.cycles}

\* C23: findCycles returns every distinct cycle of the graph of explicit
\* and implicit edges.
C23_EveryCycleReturned ==
    last.op = "findCycles" =>
        \A p \in SimpleCycles(data) : PathEdges(p) \in ReportedCycles

\* the edge that closes the reported cycle c
ClosingEdge(c) == <<c.node, c.path[1]>>

\* C23 as it holds: every entry findCycles returns is a cycle of the graph,
\* reported at the edge that closes it, and every cycle of the graph holds
\* the closing edge of an entry; so the result is empty exactly for the
\* acyclic graphs and removing the closing edges leaves no cycle.
C23_EveryCycleHoldsReportedEdge ==
    last.op = "findCycles" =>
        /\ \A c \in DOMAIN last.cycles :
               /\ last.cycles[c].path \in SimpleCycles(data)
               /\ last.cycles[c].node = last.cycles[c].path[Len(last.cycles[c].path)]
        /\ \A p \in SimpleCycles(data) :
               \E c \in DOMAIN last.cycles : ClosingEdge(last.cycles[c]) \in PathEdges(p)

\* two cycles that share the closing edge 3 -> 1, one of them returned
C23_Witness ==
    /\ last.op = "findCycles"
    /\ {<<<<1, 0>>, <<2, 0>>>>, <<<<2, 0>>, <<3, 0>>>>, <<<<3, 0>>, <<1, 0>>>>,
        <<<<1, 0>>, <<3, 0>>>>} \subseteq EdgePairs(data)
    /\ Len(last.cycles) = 1
    /\ Len(last.cycles[1].path) = 3

====
